---- MODULE Spec2Model ----
(***************************************************************************)
(* A state-machine model of firstrl.py, a turn-based roguelike: dungeon    *)
(* generation, field of view, movement, combat, inventory, equipment and   *)
(* levelling.  The Python globals (map, objects, inventory, player,        *)
(* stairs, dungeon_level, game_state, fov_map, fov_recompute, camera_x,    *)
(* camera_y) and play_game's player_action are the variables; pc and       *)
(* turn_idx are the position in play_game's loop.  Python objects are      *)
(* entity ids whose attributes live in ent.  The map, room, camera and     *)
(* session sizes are scaled down; every other number is the program's own. *)
(***************************************************************************)
EXTENDS Integers, Sequences, FiniteSets, TLC

VARIABLES map, objects, inventory, ent, player, stairs, dungeon_level,
          game_state, fov_map, fov_recompute, camera_x, camera_y,
          player_action, pc, turn_idx, nkeys

vars == <<map, objects, inventory, ent, player, stairs, dungeon_level,
          game_state, fov_map, fov_recompute, camera_x, camera_y,
          player_action, pc, turn_idx, nkeys>>

----------------------------------------------------------------------------
(* Sizes.  The map, camera and room sizes are the program's, scaled down.  *)

MAP_WIDTH == 6
MAP_HEIGHT == 5
CAMERA_WIDTH == 4
CAMERA_HEIGHT == 3
ROOM_MAX_SIZE == 4
ROOM_MIN_SIZE == 2
MAX_ROOMS == 2

\* Entity ids available to the session (Python allocates objects freely).
MaxEnt == 32
\* Key events one session handles.
MaxKeys == 5
\* Menu letters the player answers with ('a', 'b', ...).
MaxMenuKey == 2
\* Deepest dungeon level a session descends to.
MaxDungeonLevel == 5
\* The tables drawn for from_dungeon_level: rows, levels and values.
MaxTableLen == 3
MaxThreshold == 3
MaxTableValue == 2

TORCH_RADIUS == 10
HEAL_AMOUNT == 40
LIGHTNING_DAMAGE == 40
LIGHTNING_RANGE == 5
CONFUSE_NUM_TURNS == 10
CONFUSE_RANGE == 8
FIREBALL_RADIUS == 3
FIREBALL_DAMAGE == 25
LEVEL_UP_BASE == 200
LEVEL_UP_FACTOR == 150
\* Item.pick_up refuses at this many inventory entries.
INVENTORY_CAPACITY == 26

Ids == 1..MaxEnt
Tiles == (0..(MAP_WIDTH - 1)) \X (0..(MAP_HEIGHT - 1))

\* Python's None, as a record so that it compares with component records.
None == [none |-> TRUE]

----------------------------------------------------------------------------
(* Basic classes                                                           *)

\* Tile(blocked): block_sight defaults to blocked, explored starts False.
Tile(blocked) == [blocked |-> blocked, block_sight |-> blocked, explored |-> FALSE]

Rect(x, y, w, h) == [x1 |-> x, y1 |-> y, x2 |-> x + w, y2 |-> y + h]

\* Rect.center, with Python 2's integer division.
\* Rect.center with the halves rounded up.
center_rounded_up(r) == <<(r.x1 + r.x2 + 1) \div 2, (r.y1 + r.y2 + 1) \div 2>>

center(r) == <<(r.x1 + r.x2) \div 2, (r.y1 + r.y2) \div 2>>

intersect(r, other) ==
    /\ r.x1 <= other.x2
    /\ r.x2 >= other.x1
    /\ r.y1 <= other.y2
    /\ r.y2 >= other.y1

Fighter(hp, defence, power, xp, death_function) ==
    [base_max_hp |-> hp, hp |-> hp, base_defence |-> defence, base_power |-> power,
     xp |-> xp, death_function |-> death_function]

BasicMonster == [type |-> "basic"]

ConfusedMonster(old_ai, num_turns) ==
    [type |-> "confused", old_ai |-> old_ai, num_turns |-> num_turns]

Item(use_function) == [use_function |-> use_function]

Equipment(slot, power_bonus, defence_bonus, max_hp_bonus) ==
    [slot |-> slot, is_equipped |-> FALSE, power_bonus |-> power_bonus,
     defence_bonus |-> defence_bonus, max_hp_bonus |-> max_hp_bonus]

\* Object.__init__: an entity with Equipment always gets a fresh Item().
Object(x, y, char, name, blocks, always_visible, fighter, ai, item, equipment) ==
    [x |-> x, y |-> y, char |-> char, name |-> name, blocks |-> blocks,
     always_visible |-> always_visible, fighter |-> fighter, ai |-> ai,
     item |-> IF equipment # None THEN Item("none") ELSE item,
     equipment |-> equipment, level |-> 0]

\* An id no live Python object uses.
NoEnt == [free |-> TRUE]

----------------------------------------------------------------------------
(* Sequence helpers: list.remove, list.insert(0, ..), list.index           *)

RECURSIVE IndexFrom(_, _, _)
IndexFrom(s, e, i) ==
    IF i > Len(s) THEN 0
    ELSE IF s[i] = e THEN i
    ELSE IndexFrom(s, e, i + 1)

\* 1-based list.index, 0 when absent.
Index(s, e) == IndexFrom(s, e, 1)

\* list.remove: drops the first occurrence.
Remove(s, e) ==
    LET i == Index(s, e)
    IN  IF i = 0 THEN s
        ELSE [k \in 1..(Len(s) - 1) |-> IF k < i THEN s[k] ELSE s[k + 1]]

Range(s) == {s[i] : i \in 1..Len(s)}

\* A send_to_back that puts the object at the other end of the list.
send_to_end(objs, e) == Remove(objs, e) \o <<e>>

\* Object.send_to_back on a list.
send_to_back(objs, e) == <<e>> \o Remove(objs, e)

----------------------------------------------------------------------------
(* Dungeon generation.  The random draws of one make_map call are an       *)
(* explicit argument: a sequence with one record per room attempt,         *)
(*   [w, h, x, y, bend, monsters, items]                                   *)
(* where monsters and items are sequences of [x, y, dice] draws.           *)

create_room(m, room) ==
    [t \in Tiles |->
        IF room.x1 + 1 <= t[1] /\ t[1] < room.x2 /\ room.y1 + 1 <= t[2] /\ t[2] < room.y2
        THEN [m[t] EXCEPT !.blocked = FALSE, !.block_sight = FALSE]
        ELSE m[t]]

Min(a, b) == IF a <= b THEN a ELSE b
Max(a, b) == IF a >= b THEN a ELSE b

create_h_tunnel(m, x1, x2, y) ==
    [t \in Tiles |->
        IF t[2] = y /\ Min(x1, x2) <= t[1] /\ t[1] <= Max(x1, x2)
        THEN [m[t] EXCEPT !.blocked = FALSE, !.block_sight = FALSE]
        ELSE m[t]]

\* create_v_tunnel that digs nothing.
create_v_tunnel_undug(m, y1, y2, x) == m

create_v_tunnel(m, y1, y2, x) ==
    [t \in Tiles |->
        IF t[1] = x /\ Min(y1, y2) <= t[2] /\ t[2] <= Max(y1, y2)
        THEN [m[t] EXCEPT !.blocked = FALSE, !.block_sight = FALSE]
        ELSE m[t]]

\* isBlocked over an explicit map, object list and entity table.
isBlockedIn(m, objs, e, x, y) ==
    \/ m[<<x, y>>].blocked
    \/ \E i \in 1..Len(objs) :
          e[objs[i]].blocks /\ e[objs[i]].x = x /\ e[objs[i]].y = y

\* A scan from the table's first row: the first row whose level is reached.
from_dungeon_level_forward(table, level) ==
    LET fits == SelectSeq(table, LAMBDA row : level >= row[2])
    IN  IF Len(fits) = 0 THEN 0 ELSE fits[1][1]

RECURSIVE from_dungeon_level_at(_, _, _)
\* Scans the table from its last row down to row i.
from_dungeon_level_at(table, level, i) ==
    IF i = 0 THEN 0
    ELSE IF level >= table[i][2] THEN table[i][1]
    ELSE from_dungeon_level_at(table, level, i - 1)

from_dungeon_level(table, level) == from_dungeon_level_at(table, level, Len(table))

RECURSIVE SumSeq(_)
SumSeq(s) == IF Len(s) = 0 THEN 0 ELSE s[1] + SumSeq(Tail(s))

RECURSIVE random_choice_index_from(_, _, _, _)
random_choice_index_from(chances, dice, i, running_sum) ==
    IF i > Len(chances) THEN 0
    ELSE IF dice <= running_sum + chances[i] THEN i
    ELSE random_choice_index_from(chances, dice, i + 1, running_sum + chances[i])

\* The 1-based index the dice selects (0: none, only for a dice over the sum).
random_choice_index(chances, dice) == random_choice_index_from(chances, dice, 1, 0)

max_monsters(level) == from_dungeon_level(<<<<2, 1>>, <<3, 4>>, <<5, 6>>>>, level)

monster_names == <<"orc", "troll">>
monster_chances(level) ==
    <<80, from_dungeon_level(<<<<15, 3>>, <<30, 5>>, <<60, 7>>>>, level)>>

max_item(level) == from_dungeon_level(<<<<1, 1>>, <<2, 4>>>>, level)

item_names == <<"heal", "lightning", "fireball", "confuse", "sword", "shield">>
item_chances(level) ==
    <<35,
      from_dungeon_level(<<<<25, 4>>>>, level),
      from_dungeon_level(<<<<25, 6>>>>, level),
      from_dungeon_level(<<<<10, 2>>>>, level),
      from_dungeon_level(<<<<5, 4>>>>, level),
      from_dungeon_level(<<<<15, 8>>>>, level)>>

\* The smallest id that names no live object.
NewId(e) == CHOOSE i \in Ids : e[i] = NoEnt /\ \A j \in Ids : e[j] = NoEnt => i <= j

new_monster(choice, x, y) ==
    IF choice = "orc"
    THEN Object(x, y, "o", "orc", TRUE, FALSE,
                Fighter(20, 0, 4, 35, "monster_death"), BasicMonster, None, None)
    ELSE Object(x, y, "T", "troll", TRUE, FALSE,
                Fighter(30, 2, 8, 100, "monster_death"), BasicMonster, None, None)

new_item(choice, x, y) ==
    CASE choice = "heal" ->
           Object(x, y, "!", "healing potion", FALSE, FALSE, None, None, Item("cast_heal"), None)
      [] choice = "lightning" ->
           Object(x, y, "#", "lightning scroll", FALSE, FALSE, None, None,
                  Item("cast_lightning"), None)
      [] choice = "fireball" ->
           Object(x, y, "#", "fireball scroll", FALSE, FALSE, None, None,
                  Item("cast_fireball"), None)
      [] choice = "confuse" ->
           Object(x, y, "#", "confuse scroll", FALSE, FALSE, None, None,
                  Item("cast_confuse"), None)
      [] OTHER ->
           Object(x, y, "/", "sword", FALSE, FALSE, None, None, None,
                  Equipment("right hand", 3, 0, 0))

RECURSIVE place_monsters(_, _, _, _)
\* The monster loop of place_objects over the draws i..Len(draws).
place_monsters(G, draws, level, i) ==
    IF i > Len(draws) THEN G
    ELSE LET d == draws[i]
             choice == monster_names[random_choice_index(monster_chances(level), d.dice)]
             id == NewId(G.ent)
         IN  IF isBlockedIn(G.map, G.objects, G.ent, d.x, d.y)
             THEN place_monsters(G, draws, level, i + 1)
             ELSE place_monsters(
                    [G EXCEPT !.ent = [G.ent EXCEPT ![id] = new_monster(choice, d.x, d.y)],
                              !.objects = Append(G.objects, id)],
                    draws, level, i + 1)

RECURSIVE place_items(_, _, _, _, _)
\* The item loop of place_objects; item is the loop's local variable (0: unbound).
\* The shield branch builds no Object, so the append and send_to_back act on
\* whatever item is still bound, and fail when none is.
place_items(G, draws, level, i, item) ==
    IF i > Len(draws) \/ G.crashed THEN G
    ELSE LET d == draws[i]
             choice == item_names[random_choice_index(item_chances(level), d.dice)]
             id == NewId(G.ent)
         IN  IF isBlockedIn(G.map, G.objects, G.ent, d.x, d.y)
             THEN place_items(G, draws, level, i + 1, item)
             ELSE IF choice = "shield"
             THEN IF item = 0
                  THEN [G EXCEPT !.crashed = TRUE]
                  ELSE place_items(
                         [G EXCEPT !.objects = send_to_back(Append(G.objects, item), item)],
                         draws, level, i + 1, item)
             ELSE place_items(
                    [G EXCEPT !.ent = [G.ent EXCEPT ![id] = new_item(choice, d.x, d.y)],
                              !.objects = send_to_back(Append(G.objects, id), id)],
                    draws, level, i + 1, id)

place_objects(G, attempt, level) ==
    place_items(place_monsters(G, attempt.monsters, level, 1), attempt.items, level, 1, 0)

RECURSIVE make_rooms(_, _, _, _, _, _)
\* The room loop of make_map from attempt r on; rooms are the accepted rooms and
\* new_xy the centre of the last accepted one.
make_rooms(G, seed, level, r, rooms, new_xy) ==
    IF r > MAX_ROOMS \/ G.crashed THEN [G EXCEPT !.new_xy = new_xy]
    ELSE LET a == seed[r]
             new_room == Rect(a.x, a.y, a.w, a.h)
             failed == \E k \in 1..Len(rooms) : intersect(new_room, rooms[k])
             c == center(new_room)
             prev == center(rooms[Len(rooms)])
             carved == create_room(G.map, new_room)
             tunnelled ==
                 IF a.bend = 1
                 THEN create_v_tunnel(create_h_tunnel(carved, prev[1], c[1], prev[2]),
                                      prev[2], c[2], c[1])
                 ELSE create_h_tunnel(create_v_tunnel(carved, prev[2], c[2], prev[1]),
                                      prev[1], c[1], c[2])
             G1 == IF Len(rooms) = 0
                   THEN [G EXCEPT !.map = carved,
                                  !.ent = [G.ent EXCEPT ![G.player].x = c[1],
                                                        ![G.player].y = c[2]]]
                   ELSE [G EXCEPT !.map = tunnelled]
         IN  IF failed
             THEN make_rooms(G, seed, level, r + 1, rooms, new_xy)
             ELSE make_rooms(place_objects(G1, a, level), seed, level, r + 1,
                             Append(rooms, new_room), c)

\* make_map: e0 holds the objects that survive (the player, the inventory).
\* Returns the new map, object list, entity table and stairs.
make_map(e0, p, level, seed) ==
    LET G0 == [map |-> [t \in Tiles |-> Tile(TRUE)], objects |-> <<p>>, ent |-> e0,
               player |-> p, crashed |-> FALSE, new_xy |-> <<0, 0>>, stairs |-> 0]
        G == make_rooms(G0, seed, level, 1, <<>>, <<0, 0>>)
        id == NewId(G.ent)
    IN  IF G.crashed THEN G
        ELSE [map |-> G.map,
              objects |-> send_to_back(Append(G.objects, id), id),
              ent |-> [G.ent EXCEPT ![id] =
                          Object(G.new_xy[1], G.new_xy[2], "<", "stairs", FALSE, TRUE,
                                 None, None, None, None)],
              player |-> p, crashed |-> FALSE, new_xy |-> G.new_xy, stairs |-> id]

\* The draws random_get_int can return for a make_map call at this level.
ValidDraws(seed, level) ==
    /\ Len(seed) = MAX_ROOMS
    /\ \A r \in 1..Len(seed) :
         LET a == seed[r]
         IN  /\ a.w \in ROOM_MIN_SIZE..ROOM_MAX_SIZE
             /\ a.h \in ROOM_MIN_SIZE..ROOM_MAX_SIZE
             /\ a.x \in 0..(MAP_WIDTH - a.w - 1)
             /\ a.y \in 0..(MAP_HEIGHT - a.h - 1)
             /\ a.bend \in 0..1
             /\ Len(a.monsters) <= max_monsters(level)
             /\ Len(a.items) <= max_item(level)
             /\ \A k \in 1..Len(a.monsters) :
                  /\ a.monsters[k].x \in (a.x + 1)..(a.x + a.w - 1)
                  /\ a.monsters[k].y \in (a.y + 1)..(a.y + a.h - 1)
                  /\ a.monsters[k].dice \in 1..SumSeq(monster_chances(level))
             /\ \A k \in 1..Len(a.items) :
                  /\ a.items[k].x \in (a.x + 1)..(a.x + a.w - 1)
                  /\ a.items[k].y \in (a.y + 1)..(a.y + a.h - 1)
                  /\ a.items[k].dice \in 1..SumSeq(item_chances(level))

----------------------------------------------------------------------------
(* Field of view and path finding.  Both are libtcod calls; they are       *)
(* modelled by what the program relies on: a tile is in view when it is    *)
(* within the radius and no sight-blocking tile lies strictly between it   *)
(* and the viewer, and a path is a cheapest 8-way path (1.0 per straight   *)
(* step, 1.41 per diagonal step) over walkable tiles.                      *)

Abs(a) == IF a < 0 THEN -a ELSE a
Sign(a) == IF a < 0 THEN -1 ELSE IF a > 0 THEN 1 ELSE 0

\* The k-th of n sampled points on the segment from (ox, oy) to (tx, ty).
LinePoint(ox, oy, tx, ty, k, n) ==
    <<ox + ((2 * k * (tx - ox) + n) \div (2 * n)),
      oy + ((2 * k * (ty - oy) + n) \div (2 * n))>>

\* libtcod.map_compute_fov(fov_map, x, y, TORCH_RADIUS, FOV_LIGHT_WALLS, FOV_ALGO)
map_compute_fov(m, ox, oy) ==
    {t \in Tiles :
        LET n == Max(Abs(t[1] - ox), Abs(t[2] - oy))
        IN  /\ (t[1] - ox) * (t[1] - ox) + (t[2] - oy) * (t[2] - oy)
                 <= TORCH_RADIUS * TORCH_RADIUS
            /\ \A k \in 1..(n - 1) : ~m[LinePoint(ox, oy, t[1], t[2], k, n)].block_sight}

Neighbours(t) ==
    {u \in Tiles : u # t /\ Abs(u[1] - t[1]) <= 1 /\ Abs(u[2] - t[2]) <= 1}

\* Step cost in hundredths: 1.0 straight, 1.41 diagonal.
StepCost(t, u) == IF t[1] # u[1] /\ t[2] # u[2] THEN 141 ELSE 100

Unreachable == 1000000

RECURSIVE PathCosts(_, _, _)
\* Cheapest cost from every tile to the target: relaxation until nothing changes.
PathCosts(walkable, D, rounds) ==
    LET D2 == [t \in Tiles |->
                 IF t \notin walkable THEN D[t]
                 ELSE LET via == {D[u] + StepCost(t, u) :
                                     u \in {v \in Neighbours(t) : D[v] < Unreachable}}
                          best == IF via = {} THEN Unreachable
                                  ELSE CHOOSE c \in via : \A c2 \in via : c <= c2
                      IN  Min(D[t], best)]
    IN  IF D2 = D \/ rounds = 0 THEN D ELSE PathCosts(walkable, D2, rounds - 1)

\* The tiles move_astar leaves walkable for the mover o heading to target.
astar_walkable(m, objs, e, o, target) ==
    {t \in Tiles :
        /\ ~m[t].blocked
        /\ \A i \in 1..Len(objs) :
             (e[objs[i]].blocks /\ objs[i] # o /\ objs[i] # target)
                => ~(e[objs[i]].x = t[1] /\ e[objs[i]].y = t[2])}

astar_costs(m, objs, e, o, target) ==
    LET walkable == astar_walkable(m, objs, e, o, target)
                       \cup {<<e[o].x, e[o].y>>}
        goal == <<e[target].x, e[target].y>>
    IN  PathCosts(walkable,
                  [t \in Tiles |-> IF t = goal THEN 0 ELSE Unreachable],
                  Cardinality(Tiles))

\* The tiles a cheapest path may visit next from tile t.
NextOnPath(D, walkable, t) ==
    {u \in Neighbours(t) :
        /\ u \in walkable \/ D[u] = 0
        /\ D[u] < Unreachable
        /\ D[u] + StepCost(t, u) = D[t]}

RECURSIVE path_size(_, _, _)
\* libtcod.path_size: the number of steps of a cheapest path from t.
path_size(D, walkable, t) ==
    IF D[t] = 0 \/ D[t] >= Unreachable THEN 0
    ELSE 1 + path_size(D, walkable, CHOOSE u \in NextOnPath(D, walkable, t) : TRUE)

----------------------------------------------------------------------------
(* The world: the program's globals as one record W, so that a handler's   *)
(* calls compose.                                                          *)

World ==
    [map |-> map, objects |-> objects, inventory |-> inventory, ent |-> ent,
     player |-> player, stairs |-> stairs, dungeon_level |-> dungeon_level,
     game_state |-> game_state, fov_map |-> fov_map, fov_recompute |-> fov_recompute,
     camera_x |-> camera_x, camera_y |-> camera_y]

\* isBlocked without its loop over the blocking objects.
isBlocked_tiles_only(W, x, y) == W.map[<<x, y>>].blocked

isBlocked(W, x, y) == isBlockedIn(W.map, W.objects, W.ent, x, y)

\* get_all_equipment without the is_equipped test.
get_all_equipment_unchecked(W, o) ==
    IF o = W.player
    THEN SelectSeq(W.inventory, LAMBDA i : W.ent[i].equipment # None)
    ELSE <<>>

\* The inventory entries (in order) whose Equipment is equipped; none for a non-player.
get_all_equipment(W, o) ==
    IF o = W.player
    THEN SelectSeq(W.inventory,
                   LAMBDA i : W.ent[i].equipment # None /\ W.ent[i].equipment.is_equipped)
    ELSE <<>>

\* Fighter.power, Fighter.defence, Fighter.max_hp
power(W, o) ==
    LET eq == get_all_equipment(W, o)
    IN  W.ent[o].fighter.base_power
          + SumSeq([i \in 1..Len(eq) |-> W.ent[eq[i]].equipment.power_bonus])

defence(W, o) ==
    LET eq == get_all_equipment(W, o)
    IN  W.ent[o].fighter.base_defence
          + SumSeq([i \in 1..Len(eq) |-> W.ent[eq[i]].equipment.defence_bonus])

max_hp(W, o) ==
    LET eq == get_all_equipment(W, o)
    IN  W.ent[o].fighter.base_max_hp
          + SumSeq([i \in 1..Len(eq) |-> W.ent[eq[i]].equipment.max_hp_bonus])

\* The first inventory entry equipped in the slot (0: the slot is empty).
get_equipped_in_slot(W, slot) ==
    LET hits == SelectSeq(W.inventory,
                          LAMBDA i : /\ W.ent[i].equipment # None
                                     /\ W.ent[i].equipment.slot = slot
                                     /\ W.ent[i].equipment.is_equipped)
    IN  IF Len(hits) = 0 THEN 0 ELSE hits[1]

remains_of(name) ==
    CASE name = "orc" -> "remains of orc"
      [] name = "troll" -> "remains of troll"
      [] OTHER -> "remains of player"

player_death(W, o) ==
    [W EXCEPT !.game_state = "dead", !.ent[o].char = "%"]

monster_death(W, o) ==
    [W EXCEPT !.ent[o].char = "%",
              !.ent[o].blocks = FALSE,
              !.ent[o].fighter = None,
              !.ent[o].ai = None,
              !.ent[o].name = remains_of(W.ent[o].name),
              !.objects = send_to_back(W.objects, o)]

\* Fighter.take_damage with the experience award outside the death check.
take_damage_award_every_hit(W, o, damage) ==
    IF damage <= 0 THEN W
    ELSE LET self == W.ent[o].fighter
             W1 == [W EXCEPT !.ent[o].fighter.hp = self.hp - damage]
             W2 == CASE self.hp - damage > 0 -> W1
                     [] self.death_function = "player_death" -> player_death(W1, o)
                     [] self.death_function = "monster_death" -> monster_death(W1, o)
                     [] OTHER -> W1
         IN  IF o # W.player
             THEN [W2 EXCEPT !.ent[W.player].fighter.xp = @ + self.xp]
             ELSE W2

\* Fighter.take_damage
take_damage(W, o, damage) ==
    IF damage <= 0 THEN W
    ELSE LET self == W.ent[o].fighter
             W1 == [W EXCEPT !.ent[o].fighter.hp = self.hp - damage]
             W2 == CASE self.death_function = "player_death" -> player_death(W1, o)
                     [] self.death_function = "monster_death" -> monster_death(W1, o)
                     [] OTHER -> W1
         IN  IF self.hp - damage > 0 THEN W1
             ELSE IF o # W.player
             THEN [W2 EXCEPT !.ent[W.player].fighter.xp = @ + self.xp]
             ELSE W2

\* Fighter.attack computed from the attacker's base power, not the derived one.
attack_base_power(W, o, target) ==
    LET damage == W.ent[o].fighter.base_power - defence(W, target)
    IN  IF damage > 0 THEN take_damage(W, target, damage) ELSE W

\* Fighter.attack
attack(W, o, target) ==
    LET damage == power(W, o) - defence(W, target)
    IN  IF damage > 0 THEN take_damage(W, target, damage) ELSE W

\* Fighter.heal
heal(W, o, amount) ==
    LET hp == W.ent[o].fighter.hp + amount
    IN  [W EXCEPT !.ent[o].fighter.hp = IF hp > max_hp(W, o) THEN max_hp(W, o) ELSE hp]

\* An Object.move that only the map's tiles can stop.
move_through_objects(W, o, dx, dy) ==
    IF ~isBlocked_tiles_only(W, W.ent[o].x + dx, W.ent[o].y + dy)
    THEN [W EXCEPT !.ent[o].x = @ + dx, !.ent[o].y = @ + dy]
    ELSE W


\* Object.move
move(W, o, dx, dy) ==
    IF ~isBlocked(W, W.ent[o].x + dx, W.ent[o].y + dy)
    THEN [W EXCEPT !.ent[o].x = @ + dx, !.ent[o].y = @ + dy]
    ELSE W

\* Object.move_towards: each axis of the unit vector, rounded to the nearest integer.
move_towards(W, o, target_x, target_y) ==
    LET dx == target_x - W.ent[o].x
        dy == target_y - W.ent[o].y
        d2 == dx * dx + dy * dy
    IN  move(W, o,
             IF 4 * dx * dx >= d2 THEN Sign(dx) ELSE 0,
             IF 4 * dy * dy >= d2 THEN Sign(dy) ELSE 0)

\* Object.move_astar that follows a path of any length.
move_astar_any_length(W, o, target, ceiling) ==
    LET D == astar_costs(W.map, W.objects, W.ent, o, target)
        walkable == astar_walkable(W.map, W.objects, W.ent, o, target)
        here == <<W.ent[o].x, W.ent[o].y>>
    IN  IF D[here] < Unreachable /\ D[here] > 0
        THEN {IF u[1] # 0 \/ u[2] # 0
              THEN [W EXCEPT !.ent[o].x = u[1], !.ent[o].y = u[2]]
              ELSE W : u \in NextOnPath(D, walkable, here)}
        ELSE {move_towards(W, o, W.ent[target].x, W.ent[target].y)}

\* The body of Object.move_astar with the ceiling on the path size as a
\* parameter: the worlds it can lead to (one per cheapest first step).
move_astar_within(W, o, target, ceiling) ==
    LET D == astar_costs(W.map, W.objects, W.ent, o, target)
        walkable == astar_walkable(W.map, W.objects, W.ent, o, target)
        here == <<W.ent[o].x, W.ent[o].y>>
    IN  IF D[here] < Unreachable /\ D[here] > 0 /\ path_size(D, walkable, here) < ceiling
        THEN {IF u[1] # 0 \/ u[2] # 0
              THEN [W EXCEPT !.ent[o].x = u[1], !.ent[o].y = u[2]]
              ELSE W : u \in NextOnPath(D, walkable, here)}
        ELSE {move_towards(W, o, W.ent[target].x, W.ent[target].y)}

\* Object.move_astar: the program's ceiling is 25 steps.
move_astar(W, o, target) == move_astar_within(W, o, target, 25)

\* Squared Object.distance_to / Object.distance
distance2(W, o, x, y) ==
    (x - W.ent[o].x) * (x - W.ent[o].x) + (y - W.ent[o].y) * (y - W.ent[o].y)

distance_to2(W, o, other) == distance2(W, o, W.ent[other].x, W.ent[other].y)

----------------------------------------------------------------------------
(* Equipment and items                                                     *)

\* Equipment.dequip
dequip(W, o) ==
    IF ~W.ent[o].equipment.is_equipped THEN W
    ELSE [W EXCEPT !.ent[o].equipment.is_equipped = FALSE]

\* Equipment.equip
equip(W, o) ==
    LET old_equipment == get_equipped_in_slot(W, W.ent[o].equipment.slot)
        W1 == IF old_equipment # 0 THEN dequip(W, old_equipment) ELSE W
    IN  [W1 EXCEPT !.ent[o].equipment.is_equipped = TRUE]

\* Equipment.toogle_equip
toogle_equip(W, o) ==
    IF W.ent[o].equipment.is_equipped THEN dequip(W, o) ELSE equip(W, o)

\* Item.pick_up with the capacity test off by one ('>' for '>=').
pick_up_off_by_one(W, o) ==
    LET W1 == IF Len(W.inventory) > INVENTORY_CAPACITY THEN W
              ELSE [W EXCEPT !.inventory = Append(@, o), !.objects = Remove(@, o)]
        equipment == W.ent[o].equipment
    IN  IF equipment # None /\ get_equipped_in_slot(W1, equipment.slot) = 0
        THEN equip(W1, o)
        ELSE W1

\* Item.pick_up
pick_up(W, o) ==
    LET W1 == IF Len(W.inventory) >= INVENTORY_CAPACITY THEN W
              ELSE [W EXCEPT !.inventory = Append(@, o), !.objects = Remove(@, o)]
        equipment == W.ent[o].equipment
    IN  IF equipment # None /\ get_equipped_in_slot(W1, equipment.slot) = 0
        THEN equip(W1, o)
        ELSE W1

\* Item.drop without the dequip of an item that has Equipment.
drop_still_equipped(W, o) ==
    [W EXCEPT !.objects = Append(@, o),
              !.inventory = Remove(@, o),
              !.ent[o].x = W.ent[W.player].x,
              !.ent[o].y = W.ent[W.player].y]

\* Item.drop
drop(W, o) ==
    LET W1 == [W EXCEPT !.objects = Append(@, o),
                        !.inventory = Remove(@, o),
                        !.ent[o].x = W.ent[W.player].x,
                        !.ent[o].y = W.ent[W.player].y]
    IN  IF W.ent[o].equipment # None THEN dequip(W1, o) ELSE W1

RECURSIVE closest_from(_, _, _, _)
\* The loop of closest_monster from index i, with the closest enemy so far
\* (0: none) and its squared distance.
closest_from(W, i, closest_enemy, closest_dist2) ==
    IF i > Len(W.objects) THEN closest_enemy
    ELSE LET o == W.objects[i]
             dist2 == distance_to2(W, W.player, o)
         IN  IF /\ W.ent[o].fighter # None
                /\ o # W.player
                /\ <<W.ent[o].x, W.ent[o].y>> \in W.fov_map
                /\ dist2 < closest_dist2
             THEN closest_from(W, i + 1, o, dist2)
             ELSE closest_from(W, i + 1, closest_enemy, closest_dist2)

closest_monster(W, max_range) ==
    closest_from(W, 1, 0, (max_range + 1) * (max_range + 1))

\* move_camera
move_camera(W, target_x, target_y) ==
    LET x0 == target_x - (CAMERA_WIDTH \div 2)
        y0 == target_y - (CAMERA_HEIGHT \div 2)
        x1 == IF x0 < 0 THEN 0 ELSE x0
        y1 == IF y0 < 0 THEN 0 ELSE y0
        x == IF x1 > MAP_WIDTH - CAMERA_WIDTH - 1 THEN MAP_WIDTH - CAMERA_WIDTH - 1 ELSE x1
        y == IF y1 > MAP_HEIGHT - CAMERA_HEIGHT - 1 THEN MAP_HEIGHT - CAMERA_HEIGHT - 1 ELSE y1
    IN  [W EXCEPT !.fov_recompute = @ \/ x # W.camera_x \/ y # W.camera_y,
                  !.camera_x = x, !.camera_y = y]

\* render_all that keeps the explored mark only on the tiles in view.
render_all_forgetful(W) ==
    LET W1 == move_camera(W, W.ent[W.player].x, W.ent[W.player].y)
        fov == IF W1.fov_recompute
               THEN map_compute_fov(W1.map, W1.ent[W1.player].x, W1.ent[W1.player].y)
               ELSE W1.fov_map
    IN  [W1 EXCEPT !.fov_recompute = FALSE,
                   !.fov_map = fov,
                   !.map = [t \in Tiles |->
                              [W1.map[t] EXCEPT !.explored =
                                  /\ t \in fov
                                  /\ W1.camera_x <= t[1] /\ t[1] < W1.camera_x + CAMERA_WIDTH
                                  /\ W1.camera_y <= t[2]
                                  /\ t[2] < W1.camera_y + CAMERA_HEIGHT]]]

\* render_all: the camera, the field of view when flagged, the explored marks.
render_all(W) ==
    LET W1 == move_camera(W, W.ent[W.player].x, W.ent[W.player].y)
        fov == IF W1.fov_recompute
               THEN map_compute_fov(W1.map, W1.ent[W1.player].x, W1.ent[W1.player].y)
               ELSE W1.fov_map
    IN  [W1 EXCEPT !.fov_recompute = FALSE,
                   !.fov_map = fov,
                   !.map = [t \in Tiles |->
                              IF /\ t \in fov
                                 /\ W1.camera_x <= t[1] /\ t[1] < W1.camera_x + CAMERA_WIDTH
                                 /\ W1.camera_y <= t[2] /\ t[2] < W1.camera_y + CAMERA_HEIGHT
                              THEN [W1.map[t] EXCEPT !.explored = TRUE]
                              ELSE W1.map[t]]]

\* The tiles target_tile(max_range) can return (max_range 0: no range given).
target_tiles(W, max_range) ==
    {t \in W.fov_map :
        /\ t[1] >= W.camera_x /\ t[2] >= W.camera_y
        /\ max_range = 0 \/ distance2(W, W.player, t[1], t[2]) <= max_range * max_range}

\* The first object on the tile that target_monster accepts (0: none).
monster_at(W, t) ==
    LET hits == SelectSeq(W.objects,
                          LAMBDA o : /\ W.ent[o].x = t[1] /\ W.ent[o].y = t[2]
                                     /\ W.ent[o].fighter # None /\ o # W.player)
    IN  IF Len(hits) = 0 THEN 0 ELSE hits[1]

\* The monsters target_monster(max_range) can return.
target_monsters(W, max_range) ==
    {monster_at(W, t) : t \in target_tiles(W, max_range)} \ {0}

\* cast_heal; a use function returns the world and whether it was cancelled.
cast_heal(W) ==
    IF W.ent[W.player].fighter.hp = max_hp(W, W.player)
    THEN [W |-> W, cancelled |-> TRUE]
    ELSE [W |-> heal(W, W.player, HEAL_AMOUNT), cancelled |-> FALSE]

\* cast_lightning
cast_lightning(W) ==
    LET monster == closest_monster(W, LIGHTNING_RANGE)
    IN  IF monster = 0 THEN [W |-> W, cancelled |-> TRUE]
        ELSE [W |-> take_damage(W, monster, LIGHTNING_DAMAGE), cancelled |-> FALSE]

\* cast_confuse that does not hand the monster's AI to the ConfusedMonster.
cast_confuse_forgets(W, monster) ==
    IF monster = 0 THEN [W |-> W, cancelled |-> TRUE]
    ELSE [W |-> [W EXCEPT !.ent[monster].ai = ConfusedMonster(None, CONFUSE_NUM_TURNS)],
          cancelled |-> FALSE]

\* cast_confuse with target_monster's answer (0: the player cancelled).
cast_confuse(W, monster) ==
    IF monster = 0 THEN [W |-> W, cancelled |-> TRUE]
    ELSE [W |-> [W EXCEPT !.ent[monster].ai =
                    ConfusedMonster(W.ent[monster].ai, CONFUSE_NUM_TURNS)],
          cancelled |-> FALSE]

RECURSIVE fireball_from(_, _, _, _)
\* The damage loop of cast_fireball from list index i on; the list is read
\* afresh at every index, as Python's iterator does.
fireball_from(W, i, x, y) ==
    IF i > Len(W.objects) THEN W
    ELSE LET o == W.objects[i]
         IN  IF distance2(W, o, x, y) <= FIREBALL_RADIUS * FIREBALL_RADIUS
                /\ W.ent[o].fighter # None
             THEN fireball_from(take_damage(W, o, FIREBALL_DAMAGE), i + 1, x, y)
             ELSE fireball_from(W, i + 1, x, y)

\* A cast_fireball whose loop ends with the first fighter it burns.
cast_fireball_first_only(W, t) ==
    LET burned == SelectSeq(W.objects,
                            LAMBDA o : /\ W.ent[o].fighter # None
                                       /\ distance2(W, o, t[1], t[2])
                                             <= FIREBALL_RADIUS * FIREBALL_RADIUS)
    IN  IF t = <<>> THEN [W |-> W, cancelled |-> TRUE]
        ELSE [W |-> IF Len(burned) = 0 THEN W
                    ELSE take_damage(W, burned[1], FIREBALL_DAMAGE),
              cancelled |-> FALSE]

\* cast_fireball with target_tile's answer (<<>>: the player cancelled).
cast_fireball(W, t) ==
    IF t = <<>> THEN [W |-> W, cancelled |-> TRUE]
    ELSE [W |-> fireball_from(W, 1, t[1], t[2]), cancelled |-> FALSE]

\* What the player can answer to the targeting prompt of the item's use function.
targets(W, use_function) ==
    CASE use_function = "cast_confuse" -> target_monsters(render_all(W), CONFUSE_RANGE) \cup {0}
      [] use_function = "cast_fireball" -> target_tiles(render_all(W), 0) \cup {<<>>}
      [] OTHER -> {0}

\* Item.use with the inventory.remove outside the 'cancelled' test.
use_always_consumed(W, o, target) ==
    LET f == W.ent[o].item.use_function
        r == CASE f = "cast_heal" -> cast_heal(W)
               [] f = "cast_lightning" -> cast_lightning(W)
               [] f = "cast_confuse" -> cast_confuse(render_all(W), target)
               [] f = "cast_fireball" -> cast_fireball(render_all(W), target)
               [] OTHER -> [W |-> W, cancelled |-> TRUE]
    IN  IF W.ent[o].equipment # None THEN toogle_equip(W, o)
        ELSE [r.W EXCEPT !.inventory = Remove(@, o)]

\* Item.use, with the answer to the targeting prompt (which renders first).
use(W, o, target) ==
    LET f == W.ent[o].item.use_function
        r == CASE f = "cast_heal" -> cast_heal(W)
               [] f = "cast_lightning" -> cast_lightning(W)
               [] f = "cast_confuse" -> cast_confuse(render_all(W), target)
               [] f = "cast_fireball" -> cast_fireball(render_all(W), target)
               [] OTHER -> [W |-> W, cancelled |-> TRUE]
    IN  IF W.ent[o].equipment # None THEN toogle_equip(W, o)
        ELSE IF r.cancelled THEN r.W
        ELSE [r.W EXCEPT !.inventory = Remove(@, o)]

\* check_up_level with the level-up test strict.
check_up_level_above(W, choice) ==
    LET p == W.player
        level_up_xp == LEVEL_UP_BASE + W.ent[p].level * LEVEL_UP_FACTOR
        W1 == [W EXCEPT !.ent[p].level = @ + 1, !.ent[p].fighter.xp = @ - level_up_xp]
    IN  IF W.ent[p].fighter.xp <= level_up_xp THEN W
        ELSE CASE choice = 0 -> [W1 EXCEPT !.ent[p].fighter.base_max_hp = @ + 20,
                                           !.ent[p].fighter.hp = @ + 20]
               [] choice = 1 -> [W1 EXCEPT !.ent[p].fighter.base_power = @ + 1]
               [] OTHER -> [W1 EXCEPT !.ent[p].fighter.base_defence = @ + 1]

\* check_up_level with the menu answer (0, 1 or 2) that ends its loop.
check_up_level(W, choice) ==
    LET p == W.player
        level_up_xp == LEVEL_UP_BASE + W.ent[p].level * LEVEL_UP_FACTOR
        W1 == [W EXCEPT !.ent[p].level = @ + 1, !.ent[p].fighter.xp = @ - level_up_xp]
    IN  IF W.ent[p].fighter.xp < level_up_xp THEN W
        ELSE CASE choice = 0 -> [W1 EXCEPT !.ent[p].fighter.base_max_hp = @ + 20,
                                           !.ent[p].fighter.hp = @ + 20]
               [] choice = 1 -> [W1 EXCEPT !.ent[p].fighter.base_power = @ + 1]
               [] OTHER -> [W1 EXCEPT !.ent[p].fighter.base_defence = @ + 1]

\* initialize_fov: a fresh fov map has no tile in view until it is computed.
initialize_fov(W) == [W EXCEPT !.fov_recompute = TRUE, !.fov_map = {}]

\* The ids of live objects; every other id is free (Python collects the object).
Live(W) == {W.player} \cup Range(W.objects) \cup Range(W.inventory)

Collect(W) == [W EXCEPT !.ent = [i \in Ids |-> IF i \in Live(W) THEN W.ent[i] ELSE NoEnt]]

\* next_level with the draws of its make_map call.
next_level(W, seed) ==
    LET W1 == heal(W, W.player, max_hp(W, W.player) \div 2)
        kept == [i \in Ids |-> IF i = W.player \/ i \in Range(W.inventory)
                               THEN W1.ent[i] ELSE NoEnt]
        G == make_map(kept, W.player, W.dungeon_level + 1, seed)
    IN  initialize_fov([W1 EXCEPT !.dungeon_level = @ + 1,
                                  !.map = G.map, !.objects = G.objects,
                                  !.ent = G.ent, !.stairs = G.stairs])

\* player_move_or_attack without the search for a target: it always moves.
player_move_only(W, dx, dy) ==
    [move(W, W.player, dx, dy) EXCEPT !.fov_recompute = TRUE]

\* player_move_or_attack
player_move_or_attack(W, dx, dy) ==
    LET x == W.ent[W.player].x + dx
        y == W.ent[W.player].y + dy
        hits == SelectSeq(W.objects,
                          LAMBDA o : W.ent[o].fighter # None
                                     /\ W.ent[o].x = x /\ W.ent[o].y = y)
    IN  IF Len(hits) > 0 THEN attack(W, W.player, hits[1])
        ELSE [move(W, W.player, dx, dy) EXCEPT !.fov_recompute = TRUE]

----------------------------------------------------------------------------
(* Sessions.  main_menu starts play_game after new_game or after load_game *)
(* of a saved session; the draws of make_map and the saved sessions come   *)
(* from small sets.                                                        *)

\* A room attempt's draws.
Attempt(x, y, w, h, bend, monsters, items) ==
    [x |-> x, y |-> y, w |-> w, h |-> h, bend |-> bend, monsters |-> monsters, items |-> items]

Draw(x, y, dice) == [x |-> x, y |-> y, dice |-> dice]

\* Draws whose first attempt is the room with interior (1..3) x (1..2) and whose
\* later attempts repeat its rectangle, which make_map rejects.
OneRoom(monsters, items) ==
    [r \in 1..MAX_ROOMS |->
        IF r = 1 THEN Attempt(0, 0, 4, 3, 0, monsters, items)
        ELSE Attempt(0, 0, 4, 3, 0, <<>>, <<>>)]

\* An orc beside the player's start and a healing potion.
SeedOrc == OneRoom(<<Draw(3, 2, 1)>>, <<Draw(1, 1, 1)>>)
\* No monster; a healing potion, then a sword (dice 71, from level 4) on one tile.
SeedSword == OneRoom(<<>>, <<Draw(1, 1, 1), Draw(1, 1, 71)>>)
\* Two orcs, on either side of the start.
SeedTwoOrcs == OneRoom(<<Draw(1, 2, 1), Draw(3, 1, 1)>>, <<>>)

\* Two one-tile rooms, (1,1) and (4,3), joined by a tunnel that runs east and
\* then south; an orc in the second room.  Later attempts repeat the second room.
SeedCorner ==
    [r \in 1..MAX_ROOMS |->
        IF r = 1 THEN Attempt(0, 0, 2, 2, 0, <<>>, <<>>)
        ELSE Attempt(3, 2, 2, 2, 1, <<Draw(4, 3, 1)>>, <<>>)]

\* The make_map draws tried for a level.
SeedPool == {SeedOrc, SeedSword, SeedTwoOrcs}

\* The player Object of new_game, with the hp, xp, level and base stats given.
new_player(hp, xp, level, base) ==
    [Object(0, 0, "@", "player", TRUE, FALSE,
            [Fighter(base[1], base[2], base[3], xp, "player_death") EXCEPT !.hp = hp],
            None, None, None)
       EXCEPT !.level = level]

\* The dagger new_game puts in the inventory, equipped.
dagger ==
    [Object(0, 0, "-", "dagger", FALSE, FALSE, None, None, None,
            Equipment("right hand", 1, 0, 0))
       EXCEPT !.equipment.is_equipped = TRUE, !.always_visible = TRUE]

\* new_game with the draws of its make_map call; play_game resets the camera.
new_game(seed) ==
    LET e0 == [i \in Ids |-> IF i = 1 THEN new_player(100, 0, 1, <<100, 1, 4>>) ELSE NoEnt]
        G == make_map(e0, 1, 1, seed)
        id == NewId(G.ent)
    IN  [map |-> G.map, objects |-> G.objects, inventory |-> <<id>>,
         ent |-> [G.ent EXCEPT ![id] = dagger],
         player |-> 1, stairs |-> G.stairs, dungeon_level |-> 1,
         game_state |-> "playing", fov_map |-> {}, fov_recompute |-> TRUE,
         camera_x |-> 0, camera_y |-> 0]

RECURSIVE Walk(_, _)
\* The loop iterations of a monster-free level in which the player walks the steps.
Walk(W, steps) ==
    IF Len(steps) = 0 THEN render_all(W)
    ELSE Walk(player_move_or_attack(render_all(W), steps[1][1], steps[1][2]), Tail(steps))

\* The world of a session when it is saved on a level (after sc.walk on a
\* monster-free one): the player's hp, xp, level and base stats (max hp, defence,
\* power) and the inventory are the session's; with sc.confused > 0 the monsters
\* are under a confusion with that countdown left.
saved_world(sc) ==
    LET n == Len(sc.inv)
        e0 == [i \in Ids |-> IF i = 1 THEN new_player(sc.hp, sc.xp, sc.plevel, sc.base)
                             ELSE IF i - 1 <= n THEN sc.inv[i - 1]
                             ELSE NoEnt]
        G == make_map(e0, 1, sc.level, sc.seed)
        W0 == [map |-> G.map, objects |-> G.objects,
               inventory |-> [i \in 1..n |-> i + 1], ent |-> G.ent,
               player |-> 1, stairs |-> G.stairs, dungeon_level |-> sc.level,
               game_state |-> "playing", fov_map |-> {}, fov_recompute |-> TRUE,
               camera_x |-> 0, camera_y |-> 0]
        W1 == Walk(W0, sc.walk)
    IN  [W1 EXCEPT !.ent = [i \in Ids |->
                              IF sc.confused > 0 /\ W1.ent[i] # NoEnt /\ W1.ent[i].ai # None
                              THEN [W1.ent[i] EXCEPT !.ai = ConfusedMonster(@, sc.confused)]
                              ELSE W1.ent[i]]]

\* save_game with the stairs' index taken from the player.
save_game_stairs_as_player(W) ==
    [map |-> W.map,
     objects |-> W.objects,
     objects_ent |-> [i \in Range(W.objects) |-> W.ent[i]],
     player_index |-> Index(W.objects, W.player),
     stairs_index |-> Index(W.objects, W.player),
     inventory |-> W.inventory,
     inventory_ent |-> [i \in Range(W.inventory) |-> W.ent[i]],
     dungeon_level |-> W.dungeon_level,
     game_state |-> W.game_state]

\* save_game: the shelve file.  Each key is pickled on its own: the object list
\* and the inventory are stored with the entities they hold, the player and the
\* stairs as indices into the object list.
save_game(W) ==
    [map |-> W.map,
     objects |-> W.objects,
     objects_ent |-> [i \in Range(W.objects) |-> W.ent[i]],
     player_index |-> Index(W.objects, W.player),
     stairs_index |-> Index(W.objects, W.stairs),
     inventory |-> W.inventory,
     inventory_ent |-> [i \in Range(W.inventory) |-> W.ent[i]],
     dungeon_level |-> W.dungeon_level,
     game_state |-> W.game_state]

RECURSIVE unshare(_, _, _)
\* Unpickling the inventory on its own: an entity that the object list holds as
\* well comes back as an object of its own.
unshare(W, file, k) ==
    IF k > Len(file.inventory) THEN W
    ELSE LET id == file.inventory[k]
             fresh == NewId(W.ent)
         IN  IF \E j \in 1..(k - 1) : file.inventory[j] = id
             THEN unshare(W, file, k + 1)
             ELSE IF id \in Range(file.objects)
             THEN unshare([W EXCEPT !.ent[fresh] = file.inventory_ent[id],
                                    !.inventory = [j \in 1..Len(@) |->
                                                     IF file.inventory[j] = id
                                                     THEN fresh ELSE @[j]]],
                          file, k + 1)
             ELSE unshare([W EXCEPT !.ent[id] = file.inventory_ent[id]], file, k + 1)

\* load_game: the globals are read back from the file, the player and the stairs
\* are looked up by index, and initialize_fov is called; play_game then resets
\* the camera.
load_game(file) ==
    LET W0 == [map |-> file.map,
               objects |-> file.objects,
               inventory |-> file.inventory,
               ent |-> [i \in Ids |-> IF i \in Range(file.objects)
                                      THEN file.objects_ent[i] ELSE NoEnt],
               player |-> file.objects[file.player_index],
               stairs |-> file.objects[file.stairs_index],
               dungeon_level |-> file.dungeon_level,
               game_state |-> file.game_state,
               fov_map |-> {}, fov_recompute |-> FALSE,
               camera_x |-> 0, camera_y |-> 0]
    IN  initialize_fov(unshare(W0, file, 1))

potion == new_item("heal", 0, 0)

\* n healing potions after the dagger.
DaggerAndPotions(n) == <<dagger>> \o [i \in 1..n |-> potion]

\* The saved sessions a run may load; keys is the number of key events the
\* session had handled when it was saved.
SavedGames ==
    { \* one hit from death, between two orcs
      [level |-> 1, seed |-> SeedTwoOrcs, hp |-> 1, xp |-> 0, plevel |-> 1,
       base |-> <<100, 1, 4>>, inv |-> <<dagger>>, walk |-> <<>>, keys |-> 2, confused |-> 0],
      \* one kill short of a level-up, with a lightning scroll
      [level |-> 4, seed |-> SeedOrc, hp |-> 60, xp |-> 315, plevel |-> 1,
       base |-> <<100, 1, 4>>,
       inv |-> <<dagger, new_item("lightning", 0, 0)>>, walk |-> <<>>, keys |-> 2, confused |-> 0],
      \* three level-ups spent on defence: an orc's attack has no effect
      [level |-> 2, seed |-> SeedOrc, hp |-> 80, xp |-> 0, plevel |-> 4,
       base |-> <<100, 4, 4>>, inv |-> <<dagger>>, walk |-> <<>>, keys |-> 2, confused |-> 0],
      \* a full inventory, standing on a sword and a potion
      [level |-> 4, seed |-> SeedSword, hp |-> 100, xp |-> 0, plevel |-> 1,
       base |-> <<100, 1, 4>>,
       inv |-> DaggerAndPotions(INVENTORY_CAPACITY - 1), walk |-> <<<<-1, 0>>>>,
       keys |-> 0, confused |-> 0],
      \* one entry short of a full inventory, standing on a sword and a potion
      [level |-> 4, seed |-> SeedSword, hp |-> 100, xp |-> 0, plevel |-> 1,
       base |-> <<100, 1, 4>>,
       inv |-> DaggerAndPotions(INVENTORY_CAPACITY - 2), walk |-> <<<<-1, 0>>>>,
       keys |-> 2, confused |-> 0],
      \* an orc with two turns of confusion left; a confuse and a fireball scroll
      [level |-> 3, seed |-> SeedOrc, hp |-> 100, xp |-> 0, plevel |-> 1,
       base |-> <<100, 1, 4>>,
       inv |-> <<new_item("confuse", 0, 0), new_item("fireball", 0, 0)>>,
       walk |-> <<>>, keys |-> 2, confused |-> 2],
      \* a fireball short of death and one kill short of a level-up, between two orcs
      [level |-> 6, seed |-> SeedTwoOrcs, hp |-> 20, xp |-> 315, plevel |-> 1,
       base |-> <<100, 1, 4>>, inv |-> <<new_item("fireball", 0, 0)>>,
       walk |-> <<>>, keys |-> 3, confused |-> 0],
      \* an orc round the corner of a tunnel
      [level |-> 1, seed |-> SeedCorner, hp |-> 100, xp |-> 0, plevel |-> 1,
       base |-> <<100, 1, 4>>, inv |-> <<dagger>>, walk |-> <<>>,
       keys |-> 1, confused |-> 0] }

\* The sessions play_game is entered with: a new game, or a loaded one.
Sessions ==
    {[W |-> new_game(SeedOrc), keys |-> 0]}
       \cup {[W |-> load_game(save_game(saved_world(sc))), keys |-> sc.keys] :
                sc \in SavedGames}

Init ==
    /\ \E s \in Sessions : LET W == s.W IN
         /\ nkeys = s.keys
         /\ map = W.map
         /\ objects = W.objects
         /\ inventory = W.inventory
         /\ ent = W.ent
         /\ player = W.player
         /\ stairs = W.stairs
         /\ dungeon_level = W.dungeon_level
         /\ game_state = W.game_state
         /\ fov_map = W.fov_map
         /\ fov_recompute = W.fov_recompute
         /\ camera_x = W.camera_x
         /\ camera_y = W.camera_y
    /\ player_action = "None"
    /\ pc = "render"
    /\ turn_idx = 0

----------------------------------------------------------------------------
(* play_game: one loop iteration is render -> levelup -> keys -> monsters  *)

Commit(W) ==
    /\ map' = W.map
    /\ objects' = W.objects
    /\ inventory' = W.inventory
    /\ ent' = W.ent
    /\ player' = W.player
    /\ stairs' = W.stairs
    /\ dungeon_level' = W.dungeon_level
    /\ game_state' = W.game_state
    /\ fov_map' = W.fov_map
    /\ fov_recompute' = W.fov_recompute
    /\ camera_x' = W.camera_x
    /\ camera_y' = W.camera_y

RECURSIVE NextAI(_, _, _)
\* The first list index from i on whose object carries an AI (0: none).
NextAI(objs, e, i) ==
    IF i > Len(objs) THEN 0
    ELSE IF e[objs[i]].ai # None THEN i
    ELSE NextAI(objs, e, i + 1)

\* The end of a loop iteration with the monsters' loop run whatever handle_keys
\* returned.
AfterKeys_always_turn(W, action) ==
    LET first == NextAI(W.objects, W.ent, 1)
    IN  /\ Commit(W)
        /\ player_action' = action
        /\ IF W.game_state = "playing" /\ first # 0
           THEN pc' = "monsters" /\ turn_idx' = first
           ELSE pc' = "render" /\ turn_idx' = 0
        /\ UNCHANGED nkeys

\* The end of a loop iteration once handle_keys returned action in world W:
\* the monsters take their turns when the game is on and a turn was taken.
AfterKeys(W, action) ==
    LET first == NextAI(W.objects, W.ent, 1)
    IN  /\ Commit(W)
        /\ player_action' = action
        /\ IF W.game_state = "playing" /\ action # "didnt-take-turn" /\ first # 0
           THEN pc' = "monsters" /\ turn_idx' = first
           ELSE pc' = "render" /\ turn_idx' = 0
        /\ UNCHANGED nkeys

\* The head of the loop: the next key event is read, the screen is rendered.
Render ==
    /\ pc = "render"
    /\ nkeys < MaxKeys
    /\ Commit(render_all(World))
    /\ pc' = "levelup"
    /\ nkeys' = nkeys + 1
    /\ UNCHANGED <<player_action, turn_idx>>

RECURSIVE level_up_choice(_)
\* The while loop of check_up_level over the answers of menu (an option index,
\* or -1 for None): it goes on until an answer is an option.
level_up_choice(answers) ==
    IF Head(answers) \in 0..2 THEN Head(answers) ELSE level_up_choice(Tail(answers))

\* What the player answers to the level-up menu: an option, at once or after a
\* key that is none.
LevelUpAnswers == {<<c>> : c \in 0..2} \cup {<<-1, c>> : c \in 0..2}

\* check_up_level, with the menu answers if the player levels up.
CheckUpLevel ==
    /\ pc = "levelup"
    /\ \E answers \in LevelUpAnswers :
         Commit(check_up_level(World, level_up_choice(answers)))
    /\ pc' = "keys"
    /\ UNCHANGED <<player_action, turn_idx, nkeys>>

Directions == {<<0, -1>>, <<0, 1>>, <<-1, 0>>, <<1, 0>>,
               <<-1, 1>>, <<1, 1>>, <<-1, -1>>, <<1, -1>>}

\* handle_keys on an arrow or keypad key without the game_state test.
KeyMove_when_dead ==
    /\ pc = "keys"
    /\ \E d \in Directions : AfterKeys(player_move_or_attack(World, d[1], d[2]), "None")

\* handle_keys on an arrow or keypad key.
KeyMove ==
    /\ pc = "keys"
    /\ game_state = "playing"
    /\ \E d \in Directions : AfterKeys(player_move_or_attack(World, d[1], d[2]), "None")

\* handle_keys on keypad 5: the player waits.
KeyWait ==
    /\ pc = "keys"
    /\ game_state = "playing"
    /\ AfterKeys(World, "None")

\* handle_keys on 'g': the first item on the player's tile is picked up.
KeyPickUp ==
    /\ pc = "keys"
    /\ game_state = "playing"
    /\ LET here == SelectSeq(objects,
                             LAMBDA o : /\ ent[o].x = ent[player].x
                                        /\ ent[o].y = ent[player].y
                                        /\ ent[o].item # None)
       IN  IF Len(here) > 0
           THEN AfterKeys(pick_up(World, here[1]), "didnt-take-turn")
           ELSE AfterKeys(World, "didnt-take-turn")

\* What inventory_menu can return: an inventory index for a letter, or 0.
menu_answers == {i \in 1..MaxMenuKey : i <= Len(inventory)}

\* handle_keys on 'i': the item chosen in the inventory menu is used.
KeyUse ==
    /\ pc = "keys"
    /\ game_state = "playing"
    /\ \E i \in menu_answers :
         \E target \in targets(World, ent[inventory[i]].item.use_function) :
            AfterKeys(Collect(use(World, inventory[i], target)), "didnt-take-turn")

\* handle_keys on 'd': the item chosen in the inventory menu is dropped.
KeyDrop ==
    /\ pc = "keys"
    /\ game_state = "playing"
    /\ \E i \in menu_answers : AfterKeys(drop(World, inventory[i]), "didnt-take-turn")

\* handle_keys on ',': the player descends when standing on the stairs.
KeyStairs ==
    /\ pc = "keys"
    /\ game_state = "playing"
    /\ ent[stairs].x = ent[player].x /\ ent[stairs].y = ent[player].y
    /\ dungeon_level < MaxDungeonLevel
    /\ \E seed \in SeedPool :
         /\ ValidDraws(seed, dungeon_level + 1)
         /\ AfterKeys(next_level(World, seed), "didnt-take-turn")

\* handle_keys on any other key or on no key: a closed menu, the character
\* screen, ',' away from the stairs.
KeyOther ==
    /\ pc = "keys"
    /\ game_state = "playing"
    /\ AfterKeys(World, "didnt-take-turn")

\* handle_keys when the game is over: every key but Escape falls through.
KeyDead ==
    /\ pc = "keys"
    /\ game_state # "playing"
    /\ AfterKeys(World, "None")

\* BasicMonster.take_turn: the worlds it can lead to.
basic_take_turn(W, o) ==
    IF <<W.ent[o].x, W.ent[o].y>> \in W.fov_map
    THEN IF distance_to2(W, o, W.player) >= 4
         THEN move_astar(W, o, W.player)
         ELSE IF W.ent[W.player].fighter.hp > 0
         THEN {attack(W, o, W.player)}
         ELSE {W}
    ELSE {W}

\* ConfusedMonster.take_turn that restores the old AI in the turn in which the
\* countdown reaches 0.
confused_take_turn_restores_early(W, o) ==
    IF W.ent[o].ai.num_turns > 1
    THEN {[move(W, o, dx, dy) EXCEPT !.ent[o].ai.num_turns = @ - 1] :
             dx \in -1..1, dy \in -1..1}
    ELSE {[move(W, o, dx, dy) EXCEPT !.ent[o].ai = W.ent[o].ai.old_ai] :
             dx \in -1..1, dy \in -1..1}

\* ConfusedMonster.take_turn: the worlds it can lead to, one per random step.
confused_take_turn(W, o) ==
    IF W.ent[o].ai.num_turns > 0
    THEN {[move(W, o, dx, dy) EXCEPT !.ent[o].ai.num_turns = @ - 1] :
             dx \in -1..1, dy \in -1..1}
    ELSE {[W EXCEPT !.ent[o].ai = W.ent[o].ai.old_ai]}

take_turn(W, o) ==
    IF W.ent[o].ai.type = "basic" THEN basic_take_turn(W, o) ELSE confused_take_turn(W, o)

\* The monsters' loop left after its first object with an AI.
MonsterTurn_first_only ==
    /\ pc = "monsters"
    /\ \E W \in take_turn(World, objects[turn_idx]) :
         /\ Commit(W)
         /\ pc' = "render" /\ turn_idx' = 0
    /\ UNCHANGED <<player_action, nkeys>>

\* One iteration of the monsters' loop that reaches an object with an AI.
MonsterTurn ==
    /\ pc = "monsters"
    /\ \E W \in take_turn(World, objects[turn_idx]) :
         LET next == NextAI(W.objects, W.ent, turn_idx + 1)
         IN  /\ Commit(W)
             /\ IF next # 0
                THEN pc' = "monsters" /\ turn_idx' = next
                ELSE pc' = "render" /\ turn_idx' = 0
    /\ UNCHANGED <<player_action, nkeys>>

Next ==
    \/ Render
    \/ CheckUpLevel
    \/ KeyMove
    \/ KeyWait
    \/ KeyPickUp
    \/ KeyUse
    \/ KeyDrop
    \/ KeyStairs
    \/ KeyOther
    \/ KeyDead
    \/ MonsterTurn

Spec == Init /\ [][Next]_vars

----------------------------------------------------------------------------
(* make_map on its own: the level is generated from every room draw, at a  *)
(* first level and at the first level whose item table has every kind.     *)

\* The dungeon levels make_map is run at.
GenLevels == {1, 8}

\* The rectangles make_map can draw.
GenRects ==
    {r \in [x : 0..MAP_WIDTH, y : 0..MAP_HEIGHT,
            w : ROOM_MIN_SIZE..ROOM_MAX_SIZE, h : ROOM_MIN_SIZE..ROOM_MAX_SIZE] :
        r.x <= MAP_WIDTH - r.w - 1 /\ r.y <= MAP_HEIGHT - r.h - 1}

\* The first attempt: any rectangle, with no item, or with one item drawn with
\* the highest dice of the level in the far corner of the room, or with that
\* item drawn after one with the lowest dice.
FirstAttempts(level) ==
    UNION {{Attempt(r.x, r.y, r.w, r.h, 0, <<>>, items) :
               items \in {<<>>,
                          <<Draw(r.x + r.w - 1, r.y + r.h - 1, SumSeq(item_chances(level)))>>,
                          <<Draw(r.x + r.w - 1, r.y + r.h - 1, 1),
                            Draw(r.x + r.w - 1, r.y + r.h - 1, SumSeq(item_chances(level)))>>}} :
           r \in GenRects}

\* The second attempt: any rectangle and bend order, left empty.
LaterAttempts ==
    {Attempt(r.x, r.y, r.w, r.h, bend, <<>>, <<>>) : r \in GenRects, bend \in 0..1}

\* The attempts after the second: the smallest rooms, the ones that may still
\* fit, in the corners of the map.
SmallAttempts ==
    {a \in LaterAttempts :
        /\ a.w = ROOM_MIN_SIZE /\ a.h = ROOM_MIN_SIZE /\ a.bend = 1
        /\ a.x \in {0, MAP_WIDTH - a.w - 1}
        /\ a.y \in {0, MAP_HEIGHT - a.h - 1}}

\* The draws of one make_map call.
GenSeeds(level) ==
    {[r \in 1..MAX_ROOMS |-> IF r = 1 THEN first ELSE IF r = 2 THEN second ELSE rest[r]] :
        first \in FirstAttempts(level), second \in LaterAttempts,
        rest \in [3..MAX_ROOMS -> SmallAttempts]}

\* Before make_map: the player exists, nothing else does.
GenInit ==
    /\ dungeon_level \in GenLevels
    /\ map = [t \in Tiles |-> Tile(TRUE)]
    /\ objects = <<1>>
    /\ inventory = <<>>
    /\ ent = [i \in Ids |-> IF i = 1 THEN new_player(100, 0, 1, <<100, 1, 4>>) ELSE NoEnt]
    /\ player = 1
    /\ stairs = 0
    /\ game_state = "playing"
    /\ fov_map = {}
    /\ fov_recompute = TRUE
    /\ camera_x = 0
    /\ camera_y = 0
    /\ player_action = "None"
    /\ pc = "make_map"
    /\ turn_idx = 0
    /\ nkeys = 0

\* make_map: it returns (pc "made"), or place_objects raises and the globals
\* stay as they were when it did (pc "crashed").
MakeMap ==
    /\ pc = "make_map"
    /\ \E seed \in GenSeeds(dungeon_level) :
         LET G == make_map(ent, player, dungeon_level, seed)
         IN  /\ ValidDraws(seed, dungeon_level)
             /\ map' = G.map
             /\ objects' = G.objects
             /\ ent' = G.ent
             /\ stairs' = G.stairs
             /\ pc' = IF G.crashed THEN "crashed" ELSE "made"
    /\ UNCHANGED <<inventory, player, dungeon_level, game_state, fov_map, fov_recompute,
                   camera_x, camera_y, player_action, turn_idx, nkeys>>

GenNext == MakeMap

GenSpec == GenInit /\ [][GenNext]_vars

----------------------------------------------------------------------------
(* A session that goes on for ever: the loop of play_game with no bound on *)
(* the key events, on a level with one orc under a confusion, the player   *)
(* carrying a confuse scroll and too well armoured for the orc to hurt.    *)

LiveGame ==
    [level |-> 3, seed |-> SeedOrc, hp |-> 100, xp |-> 0, plevel |-> 4,
     base |-> <<100, 4, 4>>, inv |-> <<new_item("confuse", 0, 0)>>,
     walk |-> <<>>, keys |-> 0, confused |-> 2]

LiveWorld == load_game(save_game(saved_world(LiveGame)))

LiveInit ==
    \E W \in {LiveWorld} :
    /\ map = W.map
    /\ objects = W.objects
    /\ inventory = W.inventory
    /\ ent = W.ent
    /\ player = W.player
    /\ stairs = W.stairs
    /\ dungeon_level = W.dungeon_level
    /\ game_state = W.game_state
    /\ fov_map = W.fov_map
    /\ fov_recompute = W.fov_recompute
    /\ camera_x = W.camera_x
    /\ camera_y = W.camera_y
    /\ player_action = "None"
    /\ pc = "render"
    /\ turn_idx = 0
    /\ nkeys = 0

\* The head of the loop, any number of times.
RenderAgain ==
    /\ pc = "render"
    /\ Commit(render_all(World))
    /\ pc' = "levelup"
    /\ UNCHANGED <<player_action, turn_idx, nkeys>>

\* The key that takes a turn: the player stands still and waits (keypad 5),
\* or reads the scroll.
TurnKey == KeyWait

LiveNext ==
    \/ RenderAgain
    \/ CheckUpLevel
    \/ KeyWait
    \/ KeyUse
    \/ MonsterTurn

\* The loop never stops by itself, and the player keeps taking turns.
LiveSpec ==
    /\ LiveInit
    /\ [][LiveNext]_vars
    /\ WF_vars(RenderAgain)
    /\ WF_vars(CheckUpLevel)
    /\ WF_vars(MonsterTurn)
    /\ SF_vars(TurnKey)

----------------------------------------------------------------------------
(* move_astar on its own: a level of two rooms joined by a bent tunnel,     *)
(* with two orcs and the player on any three of its floor tiles, and one   *)
(* call of move_astar by an orc that is not next to the player.  A path of *)
(* 25 steps does not fit the map, so the call is made with the program's   *)
(* ceiling and with one scaled to the map.                                 *)

\* The ceiling on the path size scaled to the map.
PathCeiling == 3

PathCeilings == {PathCeiling, 25}

\* The room (1,1), the room (4,2)-(4,3) with two orcs, and the tunnel along
\* y = 1 that turns south at x = 4.
SeedTunnel ==
    [r \in 1..MAX_ROOMS |->
        IF r = 1 THEN Attempt(0, 0, 2, 2, 0, <<>>, <<>>)
        ELSE Attempt(3, 1, 2, 3, 1, <<Draw(4, 3, 1), Draw(4, 2, 1)>>, <<>>)]

TunnelLevel ==
    saved_world([level |-> 4, seed |-> SeedTunnel, hp |-> 100, xp |-> 0, plevel |-> 1,
                 base |-> <<100, 1, 4>>, inv |-> <<dagger>>, walk |-> <<>>,
                 keys |-> 0, confused |-> 0])

\* The blocking objects of level L: the player and the orcs.
Walkers(L) == SelectSeq(L.objects, LAMBDA o : L.ent[o].blocks)

\* Level L with its walkers on the tiles given, in list order.
PlacedOn(L, tiles) ==
    [L EXCEPT
       !.ent = [i \in Ids |->
                  IF Index(Walkers(L), i) = 0 THEN L.ent[i]
                  ELSE [L.ent[i] EXCEPT !.x = tiles[Index(Walkers(L), i)][1],
                                        !.y = tiles[Index(Walkers(L), i)][2]]]]

\* The ways to put the walkers of L each on a floor tile of its own.
Placements(L) ==
    {ts \in [1..Len(Walkers(L)) -> {t \in Tiles : ~L.map[t].blocked}] :
        \A i, j \in 1..Len(Walkers(L)) : i # j => ts[i] # ts[j]}

\* The worlds the walkers can have walked to.
TunnelWorlds ==
    UNION {{PlacedOn(L, tiles) : tiles \in Placements(L)} : L \in {TunnelLevel}}

PathInit ==
    /\ \E W \in TunnelWorlds :
         /\ map = W.map
         /\ objects = W.objects
         /\ inventory = W.inventory
         /\ ent = W.ent
         /\ player = W.player
         /\ stairs = W.stairs
         /\ dungeon_level = W.dungeon_level
         /\ game_state = W.game_state
         /\ fov_map = W.fov_map
         /\ fov_recompute = W.fov_recompute
         /\ camera_x = W.camera_x
         /\ camera_y = W.camera_y
    /\ player_action = "None"
    /\ pc = "astar"
    /\ turn_idx = 0
    /\ nkeys = 0

\* One call of move_astar towards the player, by a monster two tiles or more
\* away from it (BasicMonster.take_turn attacks when it is nearer).
MoveAstar ==
    /\ pc = "astar"
    /\ \E i \in 1..Len(objects) : \E ceiling \in PathCeilings :
         /\ ent[objects[i]].ai # None
         /\ distance_to2(World, objects[i], player) >= 4
         /\ \E W \in move_astar_within(World, objects[i], player, ceiling) : Commit(W)
         /\ turn_idx' = i
    /\ pc' = "moved"
    /\ UNCHANGED <<player_action, nkeys>>

PathNext == MoveAstar

PathSpec == PathInit /\ [][PathNext]_vars

----------------------------------------------------------------------------
(* Properties                                                              *)

\* The world after the step.
WorldNext ==
    [map |-> map', objects |-> objects', inventory |-> inventory', ent |-> ent',
     player |-> player', stairs |-> stairs', dungeon_level |-> dungeon_level',
     game_state |-> game_state', fov_map |-> fov_map', fov_recompute |-> fov_recompute',
     camera_x |-> camera_x', camera_y |-> camera_y']

Slots == {"right hand", "left hand"}

\* The inventory positions holding an item equipped in the slot.
EquippedAt(slot) ==
    {i \in 1..Len(inventory) :
        /\ ent[inventory[i]].equipment # None
        /\ ent[inventory[i]].equipment.slot = slot
        /\ ent[inventory[i]].equipment.is_equipped}

\* The items lying on the player's tile, in list order.
ItemsHere ==
    SelectSeq(objects, LAMBDA o : /\ ent[o].x = ent[player].x
                                  /\ ent[o].y = ent[player].y
                                  /\ ent[o].item # None)

\* C1: in every reachable state, each equipment slot has at most one inventory
\* item with is_equipped = true.
C1_OneEquippedPerSlot ==
    \A slot \in Slots : Cardinality(EquippedAt(slot)) <= 1

\* C2: a pick_up invoked while the inventory holds 26 entries changes neither the
\* inventory, nor the live collection, nor any entity (so no is_equipped flag).
C2_FullPickUpChangesNothing ==
    [][(/\ pc = "keys"
        /\ Len(inventory) >= INVENTORY_CAPACITY
        /\ Len(ItemsHere) > 0
        /\ WorldNext = pick_up(World, ItemsHere[1]))
          => (inventory' = inventory /\ objects' = objects /\ ent' = ent)]_vars

\* C3: the inventory never holds more than 26 entries, and a pick_up of any item
\* on the player's tile at 26 entries leaves the inventory as it is.
C3_InventoryAtMost26 ==
    /\ Len(inventory) <= INVENTORY_CAPACITY
    /\ \A k \in 1..Len(ItemsHere) :
         LET W == pick_up(World, ItemsHere[k])
         IN  /\ Len(W.inventory) <= INVENTORY_CAPACITY
             /\ Len(inventory) = INVENTORY_CAPACITY => W.inventory = inventory

\* C3's case: the inventory was filled to 26 by picking up the sword, and an item
\* still lies on the player's tile.
C3_Witness ==
    /\ Len(inventory) = INVENTORY_CAPACITY
    /\ ent[inventory[Len(inventory)]].name = "sword"
    /\ Len(ItemsHere) > 0

\* The monsters: the live objects other than the player that carry a Fighter.
Monsters == {o \in Range(objects) : o # player /\ ent[o].fighter # None}

\* The monsters that lose their Fighter in the step.
Died == {o \in Monsters : ent'[o].fighter = None}

RECURSIVE SumXp(_)
SumXp(S) ==
    IF S = {} THEN 0
    ELSE LET o == CHOOSE x \in S : TRUE
         IN  ent[o].fighter.xp + SumXp(S \ {o})

\* C4: within a level, the player's experience grows in a step by exactly the
\* experience values of the monsters that die in it; a monster that is hit and
\* keeps its Fighter has hp > 0 (so the award comes with the hit that brings hp
\* to <= 0); a dead monster has no Fighter, no AI and does not block; and an
\* object without a Fighter never gets one, so nothing is awarded twice.
C4_ExperienceOnce ==
    [][(dungeon_level' = dungeon_level /\ pc # "levelup") =>
          /\ ent'[player].fighter.xp = ent[player].fighter.xp + SumXp(Died)
          /\ \A o \in Died : ent'[o].ai = None /\ ~ent'[o].blocks /\ o \in Range(objects')
          /\ \A o \in Monsters \ Died : ent'[o].fighter.hp > 0
          /\ \A o \in Range(objects) :
               (ent[o].fighter = None /\ ent'[o] # NoEnt) => ent'[o].fighter = None]_vars

\* C4's case: an orc has died and its 35 experience points are the player's.
C4_Witness ==
    /\ \E o \in Range(objects) : ent[o].name = "remains of orc"
    /\ ent[player].fighter.xp \in {35, 350}

\* The inventory positions holding an equipped item.
EquippedPositions ==
    {i \in 1..Len(inventory) :
        ent[inventory[i]].equipment # None /\ ent[inventory[i]].equipment.is_equipped}

RECURSIVE SumBonus(_, _)
\* The sum of the named bonus over inventory positions.
SumBonus(S, bonus) ==
    IF S = {} THEN 0
    ELSE LET i == CHOOSE x \in S : TRUE
         IN  ent[inventory[i]].equipment[bonus] + SumBonus(S \ {i}, bonus)

\* Base value plus the equipped inventory items' bonuses for the player, the base
\* value for anyone else.
Derived(o, base, bonus) ==
    ent[o].fighter[base] + IF o = player THEN SumBonus(EquippedPositions, bonus) ELSE 0

\* C5: an attack between the player and a monster deals damage = attacker's
\* derived power - defender's derived defence; if damage > 0 the defender's hp
\* falls by exactly damage (a monster brought to hp <= 0 loses its Fighter), and
\* if damage <= 0 nothing changes at all.
C5_AttackDamage ==
    \A a \in Monsters \cup {player} : \A t \in Monsters \cup {player} :
       (a # t /\ (a = player \/ t = player)) =>
          LET damage == Derived(a, "base_power", "power_bonus")
                          - Derived(t, "base_defence", "defence_bonus")
              hp == ent[t].fighter.hp
              W == attack(World, a, t)
          IN  IF damage <= 0 THEN W = World
              ELSE IF hp - damage > 0
              THEN W = [World EXCEPT !.ent[t].fighter.hp = hp - damage]
              ELSE IF t = player
              THEN W.ent[t].fighter.hp = hp - damage /\ W.game_state = "dead"
              ELSE W.ent[t].fighter = None

\* C5's case: a monster has been hit by the player for 4 + 1 - 0 = 5.
C5_Witness ==
    \E o \in Monsters : ent[o].name = "orc" /\ ent[o].fighter.hp = 15

\* C6: every entity with a Fighter has 0 <= hp <= max_hp (the derived value).
C6_HpWithinBounds ==
    \A o \in Range(objects) :
       ent[o].fighter # None =>
          0 <= ent[o].fighter.hp /\ ent[o].fighter.hp <= max_hp(World, o)

\* A step of handle_keys that changes the inventory or an equipped flag: a
\* pick-up, a use that was not cancelled, a drop.
ItemStep ==
    /\ pc = "keys"
    /\ dungeon_level' = dungeon_level
    /\ \/ inventory' # inventory
       \/ \E o \in Range(inventory) :
             /\ ent[o].equipment # None
             /\ ent'[o].equipment.is_equipped # ent[o].equipment.is_equipped

Positions == [o \in Range(objects) |-> <<ent[o].x, ent[o].y>>]

\* C8 as stated: once game_state is 'dead' it stays 'dead' and no object's
\* position changes any more.
C8_DeadFreezesAll ==
    [][game_state = "dead" => (game_state' = "dead" /\ Positions' = Positions)]_vars

\* C8 amended: once game_state is 'dead' it stays 'dead' and the player never
\* moves again; once the round of monster turns in which the player died is
\* over, no round is started and no object but the player changes at all
\* (positions, hp, AI).
\* In that last round the monsters after the killer still take their turn.
C8_DeadStaysDead ==
    [][game_state = "dead" =>
          /\ game_state' = "dead"
          /\ ent'[player].x = ent[player].x /\ ent'[player].y = ent[player].y
          /\ pc # "monsters" =>
                /\ pc' # "monsters"
                /\ objects' = objects
                /\ \A o \in Range(objects) : o # player => ent'[o] = ent[o]]_vars

\* C8's case: the player is dead and a key is being handled.
C8_Witness == game_state = "dead" /\ pc = "keys"

\* C9: Object.move(dx, dy) puts the entity on (x+dx, y+dy) when that tile is not
\* blocked and no blocking entity stands on it, and otherwise changes nothing;
\* nothing but the entity's position ever changes.
C9_MoveIffFree ==
    \A o \in Range(objects) : \A dx \in -1..1 : \A dy \in -1..1 :
       LET x == ent[o].x + dx
           y == ent[o].y + dy
           free == /\ ~map[<<x, y>>].blocked
                   /\ ~\E b \in Range(objects) :
                          ent[b].blocks /\ ent[b].x = x /\ ent[b].y = y
       IN  move(World, o, dx, dy) =
              IF free THEN [World EXCEPT !.ent[o].x = x, !.ent[o].y = y] ELSE World

\* C9's case: the player has walked off the start tile and stands next to a
\* blocking monster and next to a wall.
C9_Witness ==
    /\ nkeys > 0
    /\ fov_recompute
    /\ \E o \in Monsters :
          /\ ent[o].blocks
          /\ Abs(ent[o].x - ent[player].x) <= 1
          /\ Abs(ent[o].y - ent[player].y) <= 1
    /\ map[<<ent[player].x - 1, ent[player].y>>].blocked
    /\ <<ent[player].x, ent[player].y>> # <<ent[stairs].x, ent[stairs].y>>

\* C10: the player's derived power, defence and max_hp are the base value plus
\* the bonuses of exactly the equipped inventory items, so that dequipping any
\* of them lowers the derived value by exactly its bonus; a monster's derived
\* values are its base values.
C10_DerivedStats ==
    /\ \A o \in Monsters \cup {player} :
          /\ power(World, o) = Derived(o, "base_power", "power_bonus")
          /\ defence(World, o) = Derived(o, "base_defence", "defence_bonus")
          /\ max_hp(World, o) = Derived(o, "base_max_hp", "max_hp_bonus")
    /\ \A o \in Monsters :
          /\ power(World, o) = ent[o].fighter.base_power
          /\ defence(World, o) = ent[o].fighter.base_defence
          /\ max_hp(World, o) = ent[o].fighter.base_max_hp
    /\ \A i \in EquippedPositions :
          LET W == dequip(World, inventory[i])
              e == ent[inventory[i]].equipment
          IN  /\ power(W, player) = power(World, player) - e.power_bonus
              /\ defence(W, player) = defence(World, player) - e.defence_bonus
              /\ max_hp(W, player) = max_hp(World, player) - e.max_hp_bonus

\* C10's case: the dagger has been dequipped and the sword picked up equipped:
\* the player's power is 4 + 3.
C10_Witness ==
    /\ \E i \in 1..Len(inventory) :
          ent[inventory[i]].name = "dagger" /\ ~ent[inventory[i]].equipment.is_equipped
    /\ \E i \in EquippedPositions : ent[inventory[i]].name = "sword"
    /\ power(World, player) = 7

\* The inventory items that are no equipment.
UsableItems == {o \in Range(inventory) : ent[o].equipment = None}

\* Whether the effect of item o reports 'cancelled' for the answer given to its
\* targeting prompt: heal at full health, lightning with no enemy found,
\* confusion or fireball with the prompt cancelled.
ReportsCancelled(o, target) ==
    LET f == ent[o].item.use_function
    IN  CASE f = "cast_heal" -> ent[player].fighter.hp = max_hp(World, player)
          [] f = "cast_lightning" -> closest_monster(World, LIGHTNING_RANGE) = 0
          [] f = "cast_confuse" -> target = 0
          [] f = "cast_fireball" -> target = <<>>
          [] OTHER -> TRUE

\* C11: using a non-equipment item removes it from the inventory if and only if
\* its effect does not report 'cancelled'; a cancelled use leaves the inventory,
\* the object list and every entity (hp, AI and all) as they were.
C11_UseConsumesUnlessCancelled ==
    \A o \in UsableItems :
       \A target \in targets(World, ent[o].item.use_function) :
          LET W == use(World, o, target)
          IN  IF ReportsCancelled(o, target)
              THEN W.inventory = inventory /\ W.ent = ent /\ W.objects = objects
              ELSE W.inventory = Remove(inventory, o) /\ o \notin Range(W.inventory)

\* C11's case: a key is being handled while the wounded player carries a
\* lightning scroll with an enemy in reach, so that using it is not cancelled.
C11_Witness ==
    /\ \E o \in UsableItems :
          /\ ent[o].item.use_function = "cast_lightning"
          /\ ~ReportsCancelled(o, 0)
    /\ ent[player].fighter.hp < max_hp(World, player)
    /\ pc = "keys"

\* What a world consists of apart from the identities of its objects: the grid,
\* the entities of the object list and of the inventory in list order, which
\* list positions hold one and the same object, the positions of the player and
\* the stairs, the depth and the game state.
Contents(W) ==
    [map |-> W.map,
     objects |-> [i \in 1..Len(W.objects) |-> W.ent[W.objects[i]]],
     inventory |-> [i \in 1..Len(W.inventory) |-> W.ent[W.inventory[i]]],
     same_object |-> {ij \in (1..Len(W.objects)) \X (1..Len(W.objects)) :
                         W.objects[ij[1]] = W.objects[ij[2]]},
     player_index |-> Index(W.objects, W.player),
     stairs_index |-> Index(W.objects, W.stairs),
     dungeon_level |-> W.dungeon_level,
     game_state |-> W.game_state]

Orthogonal(t) == {u \in Tiles : Abs(u[1] - t[1]) + Abs(u[2] - t[2]) = 1}

RECURSIVE Flood(_)
\* The non-blocked tiles that orthogonal steps over non-blocked tiles reach from S.
Flood(S) ==
    LET more == {u \in Tiles : ~map[u].blocked /\ u \notin S /\ \E t \in S : u \in Orthogonal(t)}
    IN  IF more = {} THEN S ELSE Flood(S \cup more)

\* C13: on every grid make_map returns, every non-blocked tile is reachable from
\* the player's start tile through non-blocked tiles, step by orthogonal step.
C13_Connected ==
    pc = "made" =>
       /\ ~map[<<ent[player].x, ent[player].y>>].blocked
       /\ {t \in Tiles : ~map[t].blocked} = Flood({<<ent[player].x, ent[player].y>>})

\* C13's case: a second room was accepted away from the first one's row and
\* column, so that a tunnel with a bend joins them.
C13_Witness ==
    /\ pc = "made"
    /\ ent[stairs].x # ent[player].x
    /\ ent[stairs].y # ent[player].y

\* C14: once make_map is over it has returned, with the player on a non-blocked
\* start tile and the stairs in the object list.
C14_MakeMapReturns ==
    pc # "make_map" =>
       /\ pc = "made"
       /\ ~map[<<ent[player].x, ent[player].y>>].blocked
       /\ stairs \in Range(objects)

\* C15: check_up_level levels the player up exactly when xp is at least
\* LEVEL_UP_BASE + level * LEVEL_UP_FACTOR; the level then grows by exactly 1,
\* xp falls by that threshold (of the old level) and stays >= 0, and the answer
\* that ends the menu loop raises exactly one of base max hp (by 20, hp by 20 as
\* well), base power (by 1), base defence (by 1); nothing else changes.
C15_LevelUp ==
    \A answers \in LevelUpAnswers :
       LET W == check_up_level(World, level_up_choice(answers))
           choice == answers[Len(answers)]
           f == ent[player].fighter
           level_up_xp == LEVEL_UP_BASE + ent[player].level * LEVEL_UP_FACTOR
       IN  IF f.xp >= level_up_xp
           THEN /\ f.xp - level_up_xp >= 0
                /\ W = [World EXCEPT
                          !.ent[player].level = @ + 1,
                          !.ent[player].fighter.xp = @ - level_up_xp,
                          !.ent[player].fighter.base_max_hp = @ + (IF choice = 0 THEN 20 ELSE 0),
                          !.ent[player].fighter.hp = @ + (IF choice = 0 THEN 20 ELSE 0),
                          !.ent[player].fighter.base_power = @ + (IF choice = 1 THEN 1 ELSE 0),
                          !.ent[player].fighter.base_defence = @ + (IF choice = 2 THEN 1 ELSE 0)]
           ELSE W = World

\* C15's case: check_up_level is about to run with the experience exactly at
\* the threshold of level 1 (200 + 150).
C15_Witness ==
    /\ pc = "levelup"
    /\ ent[player].level = 1
    /\ ent[player].fighter.xp = LEVEL_UP_BASE + LEVEL_UP_FACTOR

\* C16: within one dungeon level a tile whose explored flag is true keeps it in
\* every step: rendering, recomputing the field of view, the player's and the
\* monsters' moves never clear it.
C16_ExploredStays ==
    [][dungeon_level' = dungeon_level =>
          \A t \in Tiles : map[t].explored => map'[t].explored]_vars

\* C16's case: a tile is marked explored and is no longer in the field of view
\* that the last rendering computed.
C16_Witness ==
    /\ ~fov_recompute
    /\ pc = "levelup"
    /\ \E t \in Tiles : map[t].explored /\ t \notin fov_map

\* The list indices whose object carries an AI.
AIIndices == {i \in 1..Len(objects) : ent[objects[i]].ai # None}

\* The least index of a non-empty set of indices.
First(S) == CHOOSE i \in S : \A j \in S : i <= j

\* C17: when handle_keys returns with a turn taken and game_state 'playing', the
\* objects that carry an AI take one turn each, in list order, before the next
\* input: the round starts at the first of them, a turn changes neither the list
\* nor which objects carry an AI and touches only the object whose turn it is
\* and the player, the next turn is that of the next such object, and the round
\* is over after the last.  When handle_keys returns 'didnt-take-turn' the loop
\* goes back to its head and no AI acts.
C17_EveryAITakesOneTurn ==
    [][/\ (/\ pc = "keys" /\ game_state' = "playing"
           /\ player_action' # "didnt-take-turn" /\ AIIndices' # {})
          => (pc' = "monsters" /\ turn_idx' = First(AIIndices'))
       /\ (pc = "keys" /\ player_action' = "didnt-take-turn") => pc' = "render"
       /\ pc' = "monsters" => (pc = "monsters" \/ (pc = "keys" /\ player_action' = "None"))
       /\ pc = "monsters" =>
             /\ turn_idx \in AIIndices
             /\ objects' = objects
             /\ AIIndices' = AIIndices
             /\ \A o \in Range(objects) :
                   o \notin {objects[turn_idx], player} => ent'[o] = ent[o]
             /\ LET later == {i \in AIIndices : i > turn_idx}
                IN  IF later = {} THEN pc' = "render"
                    ELSE pc' = "monsters" /\ turn_idx' = First(later)]_vars

\* C17's case: in a round of monster turns the second monster of the list is
\* about to act.
C17_Witness ==
    /\ pc = "monsters"
    /\ game_state = "playing"
    /\ \E i \in AIIndices : i < turn_idx

\* The object whose turn it is in the monsters' loop.
Mover == objects[turn_idx]

\* The tiles in view from the tile the player stands on now.
ViewNow == map_compute_fov(map, ent[player].x, ent[player].y)

\* What a Basic monster's turn does, whether or not it is in view.
BasicTurnDoes ==
    LET near == distance_to2(World, Mover, player) < 4
        acted == ent'[Mover] # ent[Mover] \/ ent'[player] # ent[player]
    IN  /\ (acted /\ ~near) =>
            /\ ent'[player] = ent[player]
            /\ ent'[Mover] # ent[Mover]
            /\ ent'[Mover] = [ent[Mover] EXCEPT !.x = ent'[Mover].x, !.y = ent'[Mover].y]
            /\ Abs(ent'[Mover].x - ent[Mover].x) <= 1
            /\ Abs(ent'[Mover].y - ent[Mover].y) <= 1
        /\ (acted /\ near) =>
            /\ ent[player].fighter.hp > 0
            /\ ent'[Mover] = ent[Mover]
            /\ ent'[player].fighter.hp < ent[player].fighter.hp
        /\ ent[player].fighter.hp <= 0 => ent'[player] = ent[player]

\* C18: a Basic monster acts on its turn only if its tile is in view from the
\* player's current position; when it acts it moves if its distance to the
\* player is >= 2 and attacks if the distance is < 2 and the player's hp is > 0,
\* and it never attacks a player whose hp is <= 0.
C18_BasicActsOnlyInView ==
    [][(pc = "monsters" /\ ent[Mover].ai.type = "basic") =>
          /\ BasicTurnDoes
          /\ (ent'[Mover] # ent[Mover] \/ ent'[player] # ent[player])
                => <<ent[Mover].x, ent[Mover].y>> \in ViewNow]_vars

\* C19: a ConfusedMonster's turn taken with num_turns > 0 attempts one step with
\* dx and dy in -1..1 (the monster ends on the tile it aimed at if that tile is
\* free, and stays otherwise) and lowers num_turns by exactly 1, changing
\* nothing else; its turn taken with num_turns = 0 makes old_ai the object's AI
\* again and changes nothing else.  So a confusion with N turns left is N turns
\* of random steps, followed by the turn that restores the old AI.
C19_ConfusedTurn ==
    [][(pc = "monsters" /\ ent[Mover].ai.type = "confused") =>
          LET ai == ent[Mover].ai
              x == ent'[Mover].x
              y == ent'[Mover].y
          IN  /\ ai.num_turns >= 0
              /\ IF ai.num_turns > 0
                 THEN /\ ent' = [ent EXCEPT ![Mover].x = x, ![Mover].y = y,
                                            ![Mover].ai.num_turns = ai.num_turns - 1]
                      /\ Abs(x - ent[Mover].x) <= 1
                      /\ Abs(y - ent[Mover].y) <= 1
                      /\ <<x, y>> # <<ent[Mover].x, ent[Mover].y>> => ~isBlocked(World, x, y)
                 ELSE ent' = [ent EXCEPT ![Mover].ai = ai.old_ai]]_vars

\* C19's case: on the level of the session that was saved with two turns of
\* confusion left (the player carries its fireball scroll), the orc is back
\* under its Basic AI.
C19_Witness ==
    /\ dungeon_level = 3
    /\ \E o \in Range(inventory) : ent[o].name = "fireball scroll"
    /\ \E o \in Range(objects) : ent[o].name = "orc" /\ ent[o].ai = BasicMonster

RECURSIVE Innermost(_)
\* The AI at the end of the chain of old_ai of an AI.
Innermost(ai) ==
    IF ai = None THEN None
    ELSE IF ai.type = "confused" THEN Innermost(ai.old_ai)
    ELSE ai

\* The monsters of the unbounded session.
LiveMonsters ==
    {o \in Ids : LiveWorld.ent[o] # NoEnt /\ LiveWorld.ent[o].fighter # None
                 /\ o # LiveWorld.player}

\* C20: a monster's AI is one value, and under any number of confusions the
\* chain of remembered AIs ends in its Basic AI; a living monster that is
\* confused (once, or again while it is confused) gets its Basic AI back, as
\* long as the player keeps taking turns (until then it may only die, or the
\* game end).
C20_ConfusionEnds ==
    /\ [](\A o \in LiveMonsters : ent[o].ai # None => Innermost(ent[o].ai) = BasicMonster)
    /\ \A o \in LiveMonsters :
          (ent[o].ai # None /\ ent[o].ai.type = "confused")
             ~> (ent[o].ai = BasicMonster \/ ent[o].fighter = None \/ game_state = "dead")

\* C20's case: the orc has been confused again while it was confused.
C20_Witness ==
    \E o \in LiveMonsters :
       /\ ent[o].ai # None
       /\ ent[o].ai.type = "confused"
       /\ ent[o].ai.old_ai.type = "confused"

\* The remains of dead monsters among the live objects.
Remains == {o \in Range(objects) : ent[o].name \in {"remains of orc", "remains of troll"}}

\* C21: a monster that dies in a step has afterwards no Fighter, no AI, does
\* not block and is called 'remains of' its name; the dead of the step stand at
\* the front of the object list (at index 0 when one died) and the order of all
\* other objects is unchanged.  Remains stay without Fighter, AI and blocking:
\* no step on their level changes them (so none damages them) and no monster
\* turn is theirs.
C21_MonsterDeath ==
    /\ [](\A o \in Remains :
             ent[o].fighter = None /\ ent[o].ai = None /\ ~ent[o].blocks)
    /\ [][dungeon_level' = dungeon_level =>
          /\ \A o \in Died :
               /\ ent'[o].fighter = None /\ ent'[o].ai = None /\ ~ent'[o].blocks
               /\ ent'[o].name = (IF ent[o].name = "orc" THEN "remains of orc"
                                  ELSE "remains of troll")
          /\ Died # {} =>
               /\ Range(SubSeq(objects', 1, Cardinality(Died))) = Died
               /\ SelectSeq(objects', LAMBDA o : o \notin Died)
                     = SelectSeq(objects, LAMBDA o : o \notin Died)
               /\ Cardinality(Died) = 1 => objects'[1] \in Died
          /\ \A o \in Remains : o \in Range(objects') => ent'[o] = ent[o]
          /\ pc = "monsters" => objects[turn_idx] \notin Remains]_vars

\* C21's case: the orc has died and lies first in the list, and the player has
\* walked on to the tile of its remains.
C21_Witness ==
    /\ objects[1] \in Remains
    /\ ent[objects[1]].x = ent[player].x
    /\ ent[objects[1]].y = ent[player].y
    /\ Len(objects) > 2

\* The objects with a Fighter on tile (x, y).
FightersAt(x, y) ==
    {o \in Range(objects) : ent[o].fighter # None /\ ent[o].x = x /\ ent[o].y = y}

\* C22: for every direction a key can ask for while the game is on: when an
\* object with a Fighter stands on the destination tile, the player stays where
\* it is and that object takes the damage of the player's attack (power minus
\* defence when positive: it loses that much hp, or dies when it has no more),
\* nothing else being touched; otherwise no Fighter changes and the player is
\* on the destination tile exactly when the tile is free, and else where it was.
C22_MoveOrAttack ==
    (pc = "keys" /\ game_state = "playing") =>
       \A d \in Directions :
          LET x == ent[player].x + d[1]
              y == ent[player].y + d[2]
              W == player_move_or_attack(World, d[1], d[2])
              free == /\ ~map[<<x, y>>].blocked
                      /\ ~\E b \in Range(objects) :
                             ent[b].blocks /\ ent[b].x = x /\ ent[b].y = y
          IN  IF FightersAt(x, y) # {}
              THEN /\ W.ent[player].x = ent[player].x
                   /\ W.ent[player].y = ent[player].y
                   /\ \E t \in FightersAt(x, y) :
                         LET damage == power(World, player) - defence(World, t)
                         IN  /\ \A o \in Range(objects) \ {t, player} : W.ent[o] = ent[o]
                             /\ IF damage <= 0 THEN W.ent[t] = ent[t]
                                ELSE IF damage >= ent[t].fighter.hp
                                THEN W.ent[t].fighter = None
                                ELSE W.ent[t].fighter.hp = ent[t].fighter.hp - damage
              ELSE /\ \A o \in Range(objects) : W.ent[o].fighter = ent[o].fighter
                   /\ <<W.ent[player].x, W.ent[player].y>> =
                         (IF free THEN <<x, y>> ELSE <<ent[player].x, ent[player].y>>)

\* C22's case: a key is being handled with a monster next to the player, and the
\* tile on the other side free.
C22_Witness ==
    /\ pc = "keys"
    /\ game_state = "playing"
    /\ \E d \in Directions :
          /\ FightersAt(ent[player].x + d[1], ent[player].y + d[2]) # {}
          /\ ~isBlocked(World, ent[player].x - d[1], ent[player].y - d[2])
    /\ nkeys > 1

\* C23: a pick_up of the first item on the player's tile with fewer than 26
\* inventory entries takes it off the object list and appends it to the
\* inventory; an item with Equipment is equipped afterwards exactly when no
\* equipped inventory item held its slot before, and the inventory items keep
\* their state.
C23_PickUp ==
    (pc = "keys" /\ game_state = "playing"
        /\ Len(inventory) < INVENTORY_CAPACITY /\ Len(ItemsHere) > 0) =>
       LET o == ItemsHere[1]
           W == pick_up(World, o)
       IN  /\ W.inventory = Append(inventory, o)
           /\ W.objects = Remove(objects, o)
           /\ o \notin Range(W.objects)
           /\ \A i \in Range(inventory) : W.ent[i] = ent[i]
           /\ ent[o].equipment # None =>
                 (W.ent[o].equipment.is_equipped
                     <=> EquippedAt(ent[o].equipment.slot) = {})

\* The bonus an inventory item gives while it is equipped (0 otherwise).
BonusOf(o, bonus) ==
    IF ent[o].equipment # None /\ ent[o].equipment.is_equipped
    THEN ent[o].equipment[bonus] ELSE 0

\* C24: dropping an inventory item puts it at the end of the object list and
\* takes it out of the inventory, on the player's tile, with is_equipped false
\* if it has Equipment; the player's power, defence and max_hp go down by the
\* bonus it gave, and every other object is as before.
C24_Drop ==
    (pc = "keys" /\ game_state = "playing") =>
       \A o \in Range(inventory) :
          LET W == drop(World, o)
          IN  /\ W.objects = Append(objects, o)
              /\ W.inventory = Remove(inventory, o)
              /\ o \notin Range(W.inventory)
              /\ W.ent[o].x = ent[player].x /\ W.ent[o].y = ent[player].y
              /\ ent[o].equipment # None => ~W.ent[o].equipment.is_equipped
              /\ power(W, player) = power(World, player) - BonusOf(o, "power_bonus")
              /\ defence(W, player) = defence(World, player) - BonusOf(o, "defence_bonus")
              /\ max_hp(W, player) = max_hp(World, player) - BonusOf(o, "max_hp_bonus")
              /\ \A i \in Ids \ {o} : W.ent[i] = ent[i]

\* C24's case: the dagger, which every session starts with in the inventory,
\* lies dequipped under the player, whose power is the base power again.
C24_Witness ==
    /\ \E o \in Range(objects) :
          /\ ent[o].name = "dagger"
          /\ ~ent[o].equipment.is_equipped
          /\ ent[o].x = ent[player].x /\ ent[o].y = ent[player].y
    /\ power(World, player) = ent[player].fighter.base_power
    /\ pc = "keys"

\* The tiles an 8-way path of mover o to the player may use: the floor tiles
\* with no blocking object other than the two.
Passable(o) ==
    {t \in Tiles :
        /\ ~map[t].blocked
        /\ ~\E b \in Range(objects) \ {o, player} :
               ent[b].blocks /\ ent[b].x = t[1] /\ ent[b].y = t[2]}

RECURSIVE Reach(_, _)
\* The tiles of P that 8-way steps inside P reach from S.
Reach(S, P) ==
    LET more == {u \in P \ S : \E t \in S : u \in Neighbours(t)}
    IN  IF more = {} THEN S ELSE Reach(S \cup more, P)

\* The number of steps of the cheapest path of o to the player.
PathSteps(o) ==
    path_size(astar_costs(map, objects, ent, o, player),
              astar_walkable(map, objects, ent, o, player), <<ent[o].x, ent[o].y>>)

\* The world with o on tile t.
MovedTo(o, t) == [World EXCEPT !.ent[o].x = t[1], !.ent[o].y = t[2]]

\* The fallback step of o: each axis of the unit vector to the player rounded
\* to the nearest of -1, 0, 1, taken when the tile is free.
Fallback(o) ==
    LET dx == ent[player].x - ent[o].x
        dy == ent[player].y - ent[o].y
        d2 == dx * dx + dy * dy
        t == <<ent[o].x + (IF 4 * dx * dx >= d2 THEN Sign(dx) ELSE 0),
               ent[o].y + (IF 4 * dy * dy >= d2 THEN Sign(dy) ELSE 0)>>
        free == /\ ~map[t].blocked
                /\ ~\E b \in Range(objects) :
                       ent[b].blocks /\ ent[b].x = t[1] /\ ent[b].y = t[2]
    IN  IF free THEN MovedTo(o, t) ELSE World

\* C25: for a monster two tiles or more from the player and either ceiling:
\* when the player cannot be reached over passable tiles, or the cheapest path
\* has as many steps as the ceiling or more, move_astar takes the fallback
\* step; otherwise it puts the mover on a passable neighbouring tile from which
\* the path is one step shorter.  Nothing but the mover's position changes.
C25_MoveAstar ==
    pc = "astar" =>
       \A o \in Monsters : \A ceiling \in PathCeilings :
          distance_to2(World, o, player) >= 4 =>
             LET here == <<ent[o].x, ent[o].y>>
                 goal == <<ent[player].x, ent[player].y>>
                 P == Passable(o)
                 R == move_astar_within(World, o, player, ceiling)
             IN  /\ IF goal \in Reach({here}, P) /\ PathSteps(o) < ceiling
                    THEN \A W \in R : \E u \in Neighbours(here) \cap P :
                            /\ W = MovedTo(o, u)
                            /\ PathSteps(o) =
                                 1 + path_size(astar_costs(map, objects, ent, o, player),
                                               astar_walkable(map, objects, ent, o, player), u)
                    ELSE R = {Fallback(o)}
                 /\ R # {}
                 /\ \A W \in R :
                       [W EXCEPT !.ent[o].x = ent[o].x, !.ent[o].y = ent[o].y] = World

\* C25's cases in one world, in which move_astar is called: an orc that can
\* reach the player by a path of PathCeiling steps or more (followed under the
\* ceiling of 25, given up for the fallback under the scaled one), and behind
\* it in the tunnel an orc that has no path.
C25_Witness ==
    /\ pc = "astar"
    /\ \E o, b \in Monsters :
          /\ <<ent[player].x, ent[player].y>> \in Reach({<<ent[o].x, ent[o].y>>}, Passable(o))
          /\ PathSteps(o) >= PathCeiling
          /\ PathSteps(o) < 25
          /\ Fallback(o) \notin move_astar_within(World, o, player, 25)
          /\ <<ent[player].x, ent[player].y>> \notin Reach({<<ent[b].x, ent[b].y>>}, Passable(b))
          /\ distance_to2(World, b, player) >= 4

\* The item kind random_choice gives for a dice at a level.
ItemKind(level, dice) == item_names[random_choice_index(item_chances(level), dice)]

\* The name of an item of the kind.
ItemName(kind) ==
    CASE kind = "heal" -> "healing potion"
      [] kind = "lightning" -> "lightning scroll"
      [] kind = "fireball" -> "fireball scroll"
      [] kind = "confuse" -> "confuse scroll"
      [] kind = "sword" -> "sword"
      [] OTHER -> "shield"

RECURSIVE AcceptedFrom(_, _, _)
\* The attempts of the seed from r on that make_map accepts, given the
\* rectangles accepted before.
AcceptedFrom(seed, r, rooms) ==
    IF r > Len(seed) THEN {}
    ELSE LET new_room == Rect(seed[r].x, seed[r].y, seed[r].w, seed[r].h)
         IN  IF \E k \in 1..Len(rooms) : intersect(new_room, rooms[k])
             THEN AcceptedFrom(seed, r + 1, rooms)
             ELSE {r} \cup AcceptedFrom(seed, r + 1, Append(rooms, new_room))

\* The item draws <<attempt, index>> of the seed that place an item: those of
\* accepted rooms whose tile holds neither the player nor a monster.
PlacingDraws(seed) ==
    LET start == center(Rect(seed[1].x, seed[1].y, seed[1].w, seed[1].h))
    IN  {rk \in AcceptedFrom(seed, 1, <<>>) \X (1..2) :
            /\ rk[2] <= Len(seed[rk[1]].items)
            /\ LET d == seed[rk[1]].items[rk[2]]
               IN  /\ <<d.x, d.y>> # start
                   /\ \A m \in 1..Len(seed[rk[1]].monsters) :
                         <<seed[rk[1]].monsters[m].x, seed[rk[1]].monsters[m].y>> # <<d.x, d.y>>}

\* C26: when make_map returns, every item draw that places an item has given
\* the object list one new object of the drawn kind on the drawn tile: the
\* list holds as many objects of a kind on a tile as draws chose them, no
\* item besides these, and no object twice.
C26_ItemsPlacedOnce ==
    pc = "make_map" =>
       \A seed \in GenSeeds(dungeon_level) :
          LET G == make_map(ent, player, dungeon_level, seed)
              placing == PlacingDraws(seed)
              items == {i \in 1..Len(G.objects) : G.ent[G.objects[i]].item # None}
          IN  (ValidDraws(seed, dungeon_level) /\ ~G.crashed) =>
                 /\ \A i, j \in 1..Len(G.objects) : i # j => G.objects[i] # G.objects[j]
                 /\ Cardinality(items) = Cardinality(placing)
                 /\ \A rk \in placing :
                       LET d == seed[rk[1]].items[rk[2]]
                           same == {q \in placing :
                                      LET c == seed[q[1]].items[q[2]]
                                      IN  /\ c.x = d.x /\ c.y = d.y
                                          /\ ItemKind(dungeon_level, c.dice)
                                                = ItemKind(dungeon_level, d.dice)}
                           there == {i \in items :
                                       LET o == G.ent[G.objects[i]]
                                       IN  /\ o.x = d.x /\ o.y = d.y
                                           /\ o.name = ItemName(ItemKind(dungeon_level, d.dice))}
                       IN  Cardinality(there) = Cardinality(same)

\* The greatest number of a non-empty set of numbers.
Greatest(S) == CHOOSE n \in S : \A k \in S : k <= n

\* The middle of the rectangle an attempt draws: (x + (x + w)) / 2 and
\* (y + (y + h)) / 2, in integers.
Middle(a) == <<(2 * a.x + a.w) \div 2, (2 * a.y + a.h) \div 2>>

\* C27: when make_map returns, the stairs object is first in the object list,
\* does not block, is always visible and lies in the middle of the last room
\* accepted; the player is in the middle of the first room, which is the first
\* attempt.
C27_StairsAndStart ==
    pc = "make_map" =>
       \A seed \in GenSeeds(dungeon_level) :
          LET G == make_map(ent, player, dungeon_level, seed)
              last == seed[Greatest(AcceptedFrom(seed, 1, <<>>))]
          IN  (ValidDraws(seed, dungeon_level) /\ ~G.crashed) =>
                 /\ 1 \in AcceptedFrom(seed, 1, <<>>)
                 /\ G.objects[1] = G.stairs
                 /\ G.ent[G.stairs].name = "stairs"
                 /\ ~G.ent[G.stairs].blocks
                 /\ G.ent[G.stairs].always_visible
                 /\ <<G.ent[G.stairs].x, G.ent[G.stairs].y>> = Middle(last)
                 /\ <<G.ent[player].x, G.ent[player].y>> = Middle(seed[1])
                 /\ G.player = player

\* C27's case: make_map has returned a level of two rooms with an item in it;
\* the stairs, away from the player's start, are first in the list.
C27_Witness ==
    /\ pc = "made"
    /\ objects[1] = stairs
    /\ Len(objects) > 2
    /\ <<ent[stairs].x, ent[stairs].y>> # <<ent[player].x, ent[player].y>>
    /\ \E i \in 2..Len(objects) : ent[objects[i]].item # None

\* The tiles a camera centred on the player shows.  In the program the torch
\* radius (10) is less than half the camera's width and height (40 and 21), so
\* that the visible tiles are among them; in the model the camera is scaled down
\* with the map and the visible set is taken within this extent.
AroundPlayer ==
    {t \in Tiles :
        /\ t[1] - ent[player].x \in (-(CAMERA_WIDTH \div 2))..(CAMERA_WIDTH - (CAMERA_WIDTH \div 2) - 1)
        /\ t[2] - ent[player].y \in (-(CAMERA_HEIGHT \div 2))..(CAMERA_HEIGHT - (CAMERA_HEIGHT \div 2) - 1)}

\* C28: when render_all has run, every tile in the player's field of view (and
\* within the camera's extent around the player) is marked explored, wherever
\* on the map the player stands.
C28_VisibleExplored ==
    pc = "levelup" =>
       \A t \in fov_map \cap AroundPlayer : map[t].explored

\* C29: handling a key raises fov_recompute only when the player's position
\* has changed with it, or a new level was made: a move that is blocked and an
\* attack leave the flag as it was.
C29_DirtyOnlyOnMove ==
    [][(pc = "keys" /\ ~fov_recompute /\ fov_recompute') =>
          \/ <<ent'[player].x, ent'[player].y>> # <<ent[player].x, ent[player].y>>
          \/ dungeon_level' # dungeon_level]_vars

\* The rows [value, level] of the tables given to from_dungeon_level.
TableRows == (0..MaxTableValue) \X (1..MaxThreshold)

RECURSIVE SortedTables(_)
\* The tables of at most n rows whose levels ascend.
SortedTables(n) ==
    IF n = 0 THEN {<<>>}
    ELSE LET shorter == SortedTables(n - 1)
         IN  shorter \cup
             {Append(p[1], p[2]) :
                 p \in {q \in shorter \X TableRows :
                           /\ Len(q[1]) = n - 1
                           /\ (n = 1 \/ q[1][n - 1][2] <= q[2][2])}}

\* The tables place_objects passes to from_dungeon_level.
CodeTables ==
    {<<<<2, 1>>, <<3, 4>>, <<5, 6>>>>, <<<<15, 3>>, <<30, 5>>, <<60, 7>>>>,
     <<<<1, 1>>, <<2, 4>>>>, <<<<25, 4>>>>, <<<<25, 6>>>>, <<<<10, 2>>>>,
     <<<<5, 4>>>>, <<<<15, 8>>>>}

\* The rows of the table whose level does not exceed the depth.
Fitting(table, level) == {i \in 1..Len(table) : table[i][2] <= level}

\* The value is the one of a row with the largest level that does not exceed
\* the depth, and 0 when there is no such row.
ValueOfDepth(table, level, value) ==
    LET fit == Fitting(table, level)
    IN  IF fit = {} THEN value = 0
        ELSE LET top == Greatest({table[j][2] : j \in fit})
             IN  \E i \in fit : table[i][2] = top /\ value = table[i][1]

\* The values of the table do not decrease from one row to the next.
ValuesAscend(table) ==
    \A i \in 1..(Len(table) - 1) : table[i][1] <= table[i + 1][1]

\* C30: for every table whose levels ascend, from_dungeon_level returns, at the
\* current depth and at every depth above it, the value of the row with the
\* largest level that does not exceed the depth, and 0 when every level exceeds
\* it; when the table's values do not decrease either, no smaller depth gives a
\* larger value.
C30_FromDungeonLevel ==
    \A table \in SortedTables(MaxTableLen) \cup CodeTables :
        LET here == from_dungeon_level(table, dungeon_level)
            ascend == ValuesAscend(table)
        IN  \A depth \in 1..dungeon_level :
                LET value == from_dungeon_level(table, depth)
                IN  /\ ValueOfDepth(table, depth, value)
                    /\ ascend => value <= here

\* make_map has placed an item on a depth where one of place_objects' tables has
\* rows on both sides of the depth and another has none that is reached.
C30_Witness ==
    /\ pc = "made"
    /\ \E i \in 1..Len(objects) : ent[objects[i]].item # None
    /\ \E table \in CodeTables :
          /\ Fitting(table, dungeon_level) \notin {{}, 1..Len(table)}
          /\ from_dungeon_level(table, dungeon_level) > 0
    /\ \E table \in CodeTables : Fitting(table, dungeon_level) = {}

\* The entities of the object list that block.
Blockers == {o \in Range(objects) : ent[o].blocks}

\* C31: no two blocking entities of the object list are on the same tile.
C31_BlockersApart ==
    \A a \in Blockers : \A b \in Blockers :
        a # b => <<ent[a].x, ent[a].y>> # <<ent[b].x, ent[b].y>>

\* Two monsters that block have come to stand on neighbouring tiles, next to the
\* player.
C31_Witness ==
    /\ \A a \in Blockers \ {player} :
          /\ ent[a].x - ent[player].x \in -1..1
          /\ ent[a].y - ent[player].y \in -1..1
    /\ \E a \in Blockers \ {player} : \E b \in Blockers \ {player, a} :
          /\ ent[a].x - ent[b].x \in -1..1
          /\ ent[a].y - ent[b].y \in -1..1

\* C32: whenever game_state is 'dead' the player's hp is at most 0.
C32_DeadHasNoHp == game_state = "dead" => ent[player].fighter.hp <= 0

\* C33: for every range up to LIGHTNING_RANGE, the monster closest_monster
\* returns while a key is handled is at a distance of at most that range from
\* the player.
C33_ClosestWithinRange ==
    pc = "keys" =>
       \A max_range \in 1..LIGHTNING_RANGE :
          LET monster == closest_monster(World, max_range)
          IN  monster # 0 =>
                 distance_to2(World, player, monster) <= max_range * max_range

\* The fighters within FIREBALL_RADIUS of tile t.
Burned(t) ==
    {o \in Range(objects) :
        /\ ent[o].fighter # None
        /\ distance2(World, o, t[1], t[2]) <= FIREBALL_RADIUS * FIREBALL_RADIUS}

\* The monsters a fireball on tile t kills.
BurnedToDeath(t) ==
    {o \in Burned(t) \ {player} : ent[o].fighter.hp <= FIREBALL_DAMAGE}

\* C34: while a key is handled, a fireball on any tile takes FIREBALL_DAMAGE
\* once from every fighter within FIREBALL_RADIUS of the tile, the player
\* included, and changes nothing else: a monster it kills becomes remains and
\* gives its experience to the player once, a monster it does not kill loses
\* FIREBALL_DAMAGE hp, and every other object is as it was; the object list
\* holds the same objects as before.
C34_FireballOnce ==
    pc = "keys" =>
       \A t \in Tiles :
          LET W == cast_fireball(World, t).W
          IN  /\ Len(W.objects) = Len(objects)
              /\ Range(W.objects) = Range(objects)
              /\ \A o \in Range(objects) \ {player} :
                    IF o \in BurnedToDeath(t)
                    THEN W.ent[o] = monster_death(World, o).ent[o]
                    ELSE IF o \in Burned(t)
                    THEN W.ent[o] = [ent[o] EXCEPT !.fighter.hp = @ - FIREBALL_DAMAGE]
                    ELSE W.ent[o] = ent[o]
              /\ W.ent[player].fighter.hp =
                    ent[player].fighter.hp
                       - (IF player \in Burned(t) THEN FIREBALL_DAMAGE ELSE 0)
              /\ W.ent[player].fighter.xp =
                    ent[player].fighter.xp + SumXp(BurnedToDeath(t))

\* The player holds a fireball scroll and sees a tile from which the fireball
\* kills a monster that stands after other objects in the list, burns the player
\* and a second monster, while another tile leaves a fighter out of its reach.
C34_Witness ==
    /\ pc = "keys"
    /\ game_state = "playing"
    /\ \E o \in Range(inventory) : ent[o].item # None /\ ent[o].item.use_function = "cast_fireball"
    /\ \E t \in fov_map :
          /\ player \in Burned(t)
          /\ Cardinality(BurnedToDeath(t)) > 1
          /\ \E o \in BurnedToDeath(t) : Index(objects, o) > 1
    /\ \E t \in fov_map : Burned(t) # {} /\ Monsters \ Burned(t) # {}

\* No entity is at two indexes of the list.
NoDuplicates(s) == \A i \in 1..Len(s) : \A j \in 1..Len(s) : s[i] = s[j] => i = j

\* C35: the object list and the inventory have no entity in common, and neither
\* holds an entity at two indexes.
C35_OneCollectionOneIndex ==
    /\ NoDuplicates(objects)
    /\ NoDuplicates(inventory)
    /\ Range(objects) \cap Range(inventory) = {}

====
